---- MODULE Spec2Model ----
(***************************************************************************)
(* A model of the awspagination analyzer (src/awspagination.go).           *)
(*                                                                         *)
(* The analyzer walks the FuncDecl and AssignStmt nodes of a type-checked  *)
(* package.  For every call on the right-hand side of an assignment it     *)
(* resolves the call's result type, looks for a pagination token field in  *)
(* it, checks that the type comes from the AWS SDK v2, and scans the body  *)
(* of the enclosing function declaration for pagination handling.  Types   *)
(* are a finite graph keyed by type identity (TypeTable holds the types of *)
(* all the packages, types those of the package under analysis); Go        *)
(* strings are TLA+ strings, taken apart with Len, SubSeq and \o.          *)
(***************************************************************************)
EXTENDS Integers, Sequences, FiniteSets, TLC

(***************************************************************************)
(* Bounds of the model.                                                    *)
(***************************************************************************)
\* the longest function body, in statements
MaxStmts == 2
\* the most function declarations in one file
MaxFuncs == 2
\* the most custom token fields the configuration holds
MaxCustom == 3
\* the most writes a caller makes to a list getPaginationTokenFields returned
MaxWrites == 1

(***************************************************************************)
(* Strings (package strings of the Go standard library).                   *)
(***************************************************************************)
HasPrefixAt(s, i, sub) ==
    /\ i + Len(sub) - 1 <= Len(s)
    /\ SubSeq(s, i, i + Len(sub) - 1) = sub

\* strings.Contains
StringsContains(s, sub) ==
    \E i \in 1..(Len(s) + 1) : HasPrefixAt(s, i, sub)

\* strings.Index, 0-based as in Go; -1 when sub does not occur
StringsIndex(s, sub) ==
    IF StringsContains(s, sub)
    THEN (CHOOSE i \in 1..(Len(s) + 1) :
            /\ HasPrefixAt(s, i, sub)
            /\ \A j \in 1..(i - 1) : ~HasPrefixAt(s, j, sub)) - 1
    ELSE -1

\* strings.HasSuffix
StringsHasSuffix(s, suffix) ==
    /\ Len(s) >= Len(suffix)
    /\ SubSeq(s, Len(s) - Len(suffix) + 1, Len(s)) = suffix

\* s[from:] with a 0-based Go index
SliceFrom(s, from) == SubSeq(s, from + 1, Len(s))

\* s[:to] with a 0-based Go index
SliceTo(s, to) == SubSeq(s, 1, to)

\* strings.ToLower (on ASCII)
StringsToLower(s) ==
    LET UpperLetters == "ABCDEFGHIJKLMNOPQRSTUVWXYZ"
        LowerLetters == "abcdefghijklmnopqrstuvwxyz"
        LowerChar(c) ==
            IF \E i \in 1..Len(UpperLetters) : SubSeq(UpperLetters, i, i) = c
            THEN LET i == CHOOSE k \in 1..Len(UpperLetters) :
                              SubSeq(UpperLetters, k, k) = c
                 IN  SubSeq(LowerLetters, i, i)
            ELSE c
        RECURSIVE ToLowerFrom(_)
        ToLowerFrom(i) ==
            IF i > Len(s) THEN ""
            ELSE LowerChar(SubSeq(s, i, i)) \o ToLowerFrom(i + 1)
    IN  ToLowerFrom(1)

(***************************************************************************)
(* The type graph (go/types).  A type is named by its identity; TypeTable  *)
(* gives each identity its node.  kind is the dynamic type of the          *)
(* types.Type value: Pointer (elem), Named (package path, name,            *)
(* underlying), Struct (fields, each with a name, a type and the embedded  *)
(* flag), Tuple (elems), and kinds the analyzer never looks into (Basic,   *)
(* Slice, Map, Interface, Alias).                                          *)
(***************************************************************************)
NoType ==
    [kind |-> "Basic", elem |-> "", hasPkg |-> FALSE, pkg |-> "", name |-> "",
     underlying |-> "", fields |-> <<>>, elems |-> <<>>]

BasicType(n) == [NoType EXCEPT !.name = n]
PointerTo(e) == [NoType EXCEPT !.kind = "Pointer", !.elem = e]
SliceOf(e) == [NoType EXCEPT !.kind = "Slice", !.elem = e]
MapOf(e) == [NoType EXCEPT !.kind = "Map", !.elem = e]
AliasOf(e) == [NoType EXCEPT !.kind = "Alias", !.elem = e]
InterfaceType == [NoType EXCEPT !.kind = "Interface"]
NamedType(p, n, u) ==
    [NoType EXCEPT !.kind = "Named", !.hasPkg = TRUE, !.pkg = p, !.name = n,
                   !.underlying = u]
\* a named type of the universe scope: Obj().Pkg() is nil
UniverseType(n, u) == [NoType EXCEPT !.kind = "Named", !.name = n, !.underlying = u]
StructOf(fs) == [NoType EXCEPT !.kind = "Struct", !.fields = fs]
TupleOf(es) == [NoType EXCEPT !.kind = "Tuple", !.elems = es]

Field(n, t) == [name |-> n, type |-> t, embedded |-> FALSE]
Embedded(n, t) == [name |-> n, type |-> t, embedded |-> TRUE]

\* import paths of the packages the types are declared in
PkgECS == "github.com/aws/aws-sdk-go-v2/service/ecs"
PkgS3 == "github.com/aws/aws-sdk-go-v2/service/s3"
PkgDynamoDB == "github.com/aws/aws-sdk-go-v2/service/dynamodb"
PkgAPIGateway == "github.com/aws/aws-sdk-go-v2/service/apigateway"
PkgRoute53 == "github.com/aws/aws-sdk-go-v2/service/route53"
PkgForkEC2 == "github.com/mycompany/aws-sdk-go-v2/service/ec2"
PkgDynamoDBTypes == "github.com/aws/aws-sdk-go-v2/service/dynamodb/types"
PkgMirrorSQS ==
    "mirror.example.com/aws-sdk-go-v2/service/mirror/github.com/aws/aws-sdk-go-v2/service/sqs"
PkgSDKv1S3 == "github.com/aws/aws-sdk-go/service/s3"
PkgSmithyDocument == "github.com/aws/smithy-go/document"
PkgTest == "test"

\* A named struct type id declared in package p, with the pointer to it and the
\* (pointer, error) result tuple of an API method returning it.
StructIdOf(id) == "struct{" \o id \o "}"
PointerIdOf(id) == "*" \o id
ResultIdOf(id) == "(*" \o id \o ", error)"

OutputType(id, p, n, fs) ==
    (id :> NamedType(p, n, StructIdOf(id)))
    @@ (StructIdOf(id) :> StructOf(fs))
    @@ (PointerIdOf(id) :> PointerTo(id))
    @@ (ResultIdOf(id) :> TupleOf(<<PointerIdOf(id), "error">>))

\* every SDK output struct embeds noSmithyDocumentSerde, an alias of document.NoSerde
NoSerdeField == Embedded("noSmithyDocumentSerde", "noSmithyDocumentSerde")

BuiltinTypes ==
    ("string" :> BasicType("string"))
    @@ ("bool" :> BasicType("bool"))
    @@ ("*string" :> PointerTo("string"))
    @@ ("[]string" :> SliceOf("string"))
    @@ ("map[string]AttributeValue" :> MapOf("string"))
    @@ ("interface{Error}" :> InterfaceType)
    @@ ("error" :> UniverseType("error", "interface{Error}"))
    @@ ("document.NoSerde" :> NamedType(PkgSmithyDocument, "NoSerde", "struct{}"))
    @@ ("struct{}" :> StructOf(<<>>))
    @@ ("noSmithyDocumentSerde" :> AliasOf("document.NoSerde"))
    @@ ("()" :> TupleOf(<<>>))
    @@ ("interface{}" :> InterfaceType)
    @@ ("any" :> AliasOf("interface{}"))

\* output types of the SDK (testdata/src/test/*.go use the real ones)
SDKTypes ==
    OutputType("ecs.ListTasksOutput", PkgECS, "ListTasksOutput",
        <<Field("NextToken", "*string"), Field("TaskArns", "[]string"), NoSerdeField>>)
    @@ ("ecs.ListTasksPaginator"
            :> NamedType(PkgECS, "ListTasksPaginator", "struct{ecs.ListTasksPaginator}"))
    @@ ("struct{ecs.ListTasksPaginator}"
            :> StructOf(<<Field("nextToken", "*string"), Field("firstPage", "bool")>>))
    @@ ("*ecs.ListTasksPaginator" :> PointerTo("ecs.ListTasksPaginator"))
    @@ OutputType("ecs.DescribeTasksOutput", PkgECS, "DescribeTasksOutput",
        <<Field("Failures", "[]string"), Field("Tasks", "[]string"), NoSerdeField>>)
    @@ OutputType("ecs.ListCustomOutput", PkgECS, "ListCustomOutput",
        <<Field("CustomToken", "*string"), Field("Items", "[]string")>>)
    @@ OutputType("ecs.ListMixedOutput", PkgECS, "ListMixedOutput",
        <<Field("CustomToken", "*string"), Field("Items", "[]string"),
          Field("NextToken", "*string")>>)
    @@ OutputType("dynamodb.ListCustomOutput", PkgDynamoDB, "ListCustomOutput",
        <<Field("CustomToken", "*string"), Field("Items", "[]string")>>)
    @@ OutputType("dynamodbtypes.ExportPage", PkgDynamoDBTypes, "ExportPage",
        <<Field("Items", "[]string"), Field("NextToken", "*string")>>)
    @@ OutputType("sqs.ListQueuesOutput", PkgMirrorSQS, "ListQueuesOutput",
        <<Field("NextToken", "*string"), Field("QueueUrls", "[]string")>>)
    @@ OutputType("s3.ListObjectsV2Output", PkgS3, "ListObjectsV2Output",
        <<Field("Contents", "[]string"), Field("ContinuationToken", "*string"),
          Field("NextContinuationToken", "*string"), NoSerdeField>>)
    @@ OutputType("dynamodb.QueryOutput", PkgDynamoDB, "QueryOutput",
        <<Field("Items", "[]string"),
          Field("LastEvaluatedKey", "map[string]AttributeValue"), NoSerdeField>>)
    @@ OutputType("dynamodb.ListExportsOutput", PkgDynamoDB, "ListExportsOutput",
        <<Field("ExportSummaries", "[]string"), Field("NextToken", "*string"),
          NoSerdeField>>)
    @@ OutputType("apigateway.GetRestApisOutput", PkgAPIGateway, "GetRestApisOutput",
        <<Field("Items", "[]string"), Field("Position", "*string"), NoSerdeField>>)
    @@ OutputType("apigateway.ListItemsOutput", PkgAPIGateway, "ListItemsOutput",
        <<Field("Items", "[]string"), Field("NextToken", "*string")>>)
    @@ OutputType("route53.ListResourceRecordSetsOutput", PkgRoute53,
        "ListResourceRecordSetsOutput",
        <<Field("IsTruncated", "bool"), Field("MaxItems", "*string"),
          Field("ResourceRecordSets", "[]string"),
          Field("NextRecordIdentifier", "*string"),
          Field("NextRecordName", "*string"), Field("NextRecordType", "string"),
          NoSerdeField>>)
    @@ OutputType("route53.ListHostedZonesOutput", PkgRoute53, "ListHostedZonesOutput",
        <<Field("HostedZones", "[]string"), Field("IsTruncated", "bool"),
          Field("Marker", "*string"), Field("NextMarker", "*string"), NoSerdeField>>)
    @@ OutputType("route53.ListPairsOutput", PkgRoute53, "ListPairsOutput",
        <<Field("IsTruncated", "bool"), Field("NextRecordName", "*string")>>)
    @@ OutputType("route53.ListTriplesOutput", PkgRoute53, "ListTriplesOutput",
        <<Field("IsTruncated", "bool"), Field("NextRecordName", "*string"),
          Field("NextRecordType", "string")>>)
    @@ OutputType("route53.ListCidrBlocksOutput", PkgRoute53, "ListCidrBlocksOutput",
        <<Field("CidrBlocks", "[]string"), Field("NextToken", "*string"),
          NoSerdeField>>)
    @@ OutputType("route53.ByNameOutput", PkgRoute53, "ByNameOutput",
        <<Field("Items", "[]string"), Field("NextRecordName", "*string"),
          Field("NextToken", "*string")>>)
    @@ OutputType("route53.ByTypeOutput", PkgRoute53, "ByTypeOutput",
        <<Field("Items", "[]string"), Field("NextRecordType", "string")>>)
    @@ OutputType("route53.ByIdentifierOutput", PkgRoute53, "ByIdentifierOutput",
        <<Field("Items", "[]string"), Field("NextMarker", "*string"),
          Field("NextRecordIdentifier", "*string")>>)
    @@ OutputType("ec2.DescribeInstancesOutput", PkgForkEC2, "DescribeInstancesOutput",
        <<Field("NextToken", "*string"), Field("Reservations", "[]string")>>)
    @@ OutputType("s3v1.ListObjectsOutput", PkgSDKv1S3, "ListObjectsOutput",
        <<Field("Contents", "[]string"), Field("NextMarker", "*string")>>)

\* types declared by the analysed package itself
\* (testdata/src/test/nonawssdk.go, embedded.go)
LocalTypes ==
    OutputType("test.CustomResult", PkgTest, "CustomResult",
        <<Field("Items", "[]string"), Field("NextToken", "*string")>>)
    @@ OutputType("test.WrappedResponse", PkgTest, "WrappedResponse",
        <<Embedded("ListTasksOutput", "*ecs.ListTasksOutput"),
          Field("RequestID", "string")>>)
    @@ OutputType("test.Holder", PkgTest, "Holder",
        <<Field("result", "*ecs.ListTasksOutput")>>)
    @@ OutputType("test.TaggedResult", PkgTest, "TaggedResult",
        <<Field("Meta", "ecs.DescribeTasksOutput"), Field("NextToken", "*string")>>)
    @@ OutputType("test.PageList", PkgTest, "PageList",
        <<Field("Pages", "[]*ecs.ListTasksOutput"), Field("NextToken", "*string")>>)
    @@ OutputType("test.Node", PkgTest, "Node",
        <<Embedded("Node", "*test.Node"), Field("Value", "string")>>)
    @@ OutputType("test.MarkerFirst", PkgTest, "MarkerFirst",
        <<Embedded("ListTasksOutput", "*ecs.ListTasksOutput"),
          Field("Marker", "*string")>>)
    @@ OutputType("test.MarkerPage", PkgTest, "MarkerPage",
        <<Field("Items", "[]string"), Field("Marker", "*string")>>)
    @@ OutputType("test.TokenFirst", PkgTest, "TokenFirst",
        <<Embedded("MarkerPage", "test.MarkerPage"),
          Field("NextToken", "*string")>>)
    @@ OutputType("test.Loop", PkgTest, "Loop",
        <<Embedded("Loop", "*test.Loop"), Field("NextToken", "*string")>>)
    @@ OutputType("test.Ping", PkgTest, "Ping",
        <<Embedded("Pong", "*test.Pong"), Field("Items", "[]string")>>)
    @@ OutputType("test.Pong", PkgTest, "Pong",
        <<Embedded("Ping", "*test.Ping"), Field("Next", "*test.Ping"),
          Field("NextMarker", "*string")>>)
    @@ OutputType("test.Chain", PkgTest, "Chain",
        <<Embedded("Chain", "*test.Chain"),
          Embedded("ListTasksOutput", "*ecs.ListTasksOutput")>>)
    @@ ("[]*ecs.ListTasksOutput" :> SliceOf("*ecs.ListTasksOutput"))
    @@ ("struct{NextToken}" :> StructOf(<<Field("NextToken", "*string")>>))
    @@ ("(struct{NextToken}, error)" :> TupleOf(<<"struct{NextToken}", "error">>))
    @@ ("**ecs.ListTasksOutput" :> PointerTo("*ecs.ListTasksOutput"))
    @@ ("(**ecs.ListTasksOutput, error)"
            :> TupleOf(<<"**ecs.ListTasksOutput", "error">>))
    @@ ("(test.WrappedResponse, error)"
            :> TupleOf(<<"test.WrappedResponse", "error">>))

TypeTable == BuiltinTypes @@ SDKTypes @@ LocalTypes

TypeIds == DOMAIN TypeTable

(***************************************************************************)
(* The syntax tree (go/ast).  A call expression carries typ, the entry of  *)
(* pass.TypesInfo.Types for it ("" when the map has none).  A statement    *)
(* carries pos, its position in the package.                               *)
(***************************************************************************)
Ident(n) == [kind |-> "Ident", name |-> n]
SelectorExpr(x, sel) == [kind |-> "SelectorExpr", X |-> x, Sel |-> sel]
CallExpr(fun, args, typ) == [kind |-> "CallExpr", Fun |-> fun, Args |-> args, typ |-> typ]
\* lhs := rhs; the same with Tok "=" is the assignment to declared variables
AssignStmt(lhs, rhs) ==
    [kind |-> "AssignStmt", pos |-> <<>>, Lhs |-> lhs, Tok |-> ":=", Rhs |-> rhs]
\* var n typ
DeclStmt(n, typ) == [kind |-> "DeclStmt", pos |-> <<>>, name |-> n, typ |-> typ, X |-> <<>>]
\* an if or for statement with condition x
CondStmt(x) == [kind |-> "CondStmt", pos |-> <<>>, X |-> <<x>>]
\* defer func() { body }(): the statements of a function literal
DeferStmt(body) == [kind |-> "DeferStmt", pos |-> <<>>, Body |-> body]
FuncDecl(n, hasBody, body) ==
    [kind |-> "FuncDecl", name |-> n, hasBody |-> hasBody, body |-> body]
\* var n = func() { body }: a function literal at package level
GenDecl(n, body) == [kind |-> "GenDecl", name |-> n, hasBody |-> FALSE, body |-> body]
SourceFile(n, decls) == [name |-> n, decls |-> decls]

\* the expressions below an expression, itself included, as ast.Inspect meets them
RECURSIVE ExprNodes(_)
ExprsNodes(es) == UNION {ExprNodes(es[i]) : i \in DOMAIN es}
ExprNodes(e) ==
    {e} \cup
    CASE e.kind = "SelectorExpr" -> ExprNodes(e.X)
      [] e.kind = "CallExpr" -> ExprNodes(e.Fun) \cup ExprsNodes(e.Args)
      [] OTHER -> {}

RECURSIVE StmtNodes(_)
StmtNodes(st) ==
    IF st.kind = "AssignStmt" THEN ExprsNodes(st.Lhs) \cup ExprsNodes(st.Rhs)
    ELSE IF st.kind = "DeferStmt"
         THEN UNION {StmtNodes(st.Body[i]) : i \in DOMAIN st.Body}
    ELSE ExprsNodes(st.X)

\* every expression node of a function body
BodyNodes(body) == UNION {StmtNodes(body[i]) : i \in DOMAIN body}

(***************************************************************************)
(* State.                                                                  *)
(*   config       the package-level Config                                 *)
(*   types        the type graph of the pass (pass.TypesInfo)              *)
(*   files        the files of the pass, in order                          *)
(*   cursor       index of the next inspector event to deliver             *)
(*   currentFunc  the enclosing function declaration, <<>> for nil         *)
(*   reports      the diagnostics passed to pass.Report, in order          *)
(***************************************************************************)
VARIABLES config, defaults, lastCall, types, files, cursor, currentFunc, reports

\* config:   the package variable config
\* defaults: the contents of the package variable defaultPaginationTokenFields
\* lastCall: the last call of a configuration function: the receiver or the
\*           configuration at entry, the argument and what the call returned
vars == <<config, defaults, lastCall, types, files, cursor, currentFunc, reports>>

\* the dynamic type of the types.Type value t
Kind(t) == types[t].kind

(***************************************************************************)
(* Token field tables.                                                     *)
(***************************************************************************)
defaultPaginationTokenFields ==
    <<"NextToken", "NextMarker", "Marker", "NextContinuationToken",
      "ContinuationToken", "NextPageToken", "NextPageMarker">>

apiSpecificPaginationFields ==
    ("dynamodb" :> <<"LastEvaluatedKey">>)
    @@ ("apigateway" :> <<"Position">>)
    @@ ("route53" :> <<"IsTruncated", "NextRecordName", "NextRecordType",
                       "NextRecordIdentifier">>)

(***************************************************************************)
(* Go slices: the elements, the capacity and the backing array they live   *)
(* in.  make allocates an array of its own; append writes in place while   *)
(* the capacity allows and moves to an array of its own otherwise.         *)
(***************************************************************************)
DefaultsArray == "defaultPaginationTokenFields"
OwnArray == "own"

\* the slice the package variable defaultPaginationTokenFields holds
DefaultsSlice == [array |-> DefaultsArray, elems |-> defaults, cap |-> Len(defaults)]

\* make([]string, n)
MakeSlice(n) == [array |-> OwnArray, elems |-> [i \in 1..n |-> ""], cap |-> n]

\* copy(dst, src): the first min(len(dst), len(src)) elements
CopySlice(dst, src) ==
    [dst EXCEPT !.elems = [i \in 1..Len(dst.elems) |->
                              IF i <= Len(src.elems) THEN src.elems[i] ELSE dst.elems[i]]]

\* append(s, xs...)
AppendSlice(s, xs) ==
    IF Len(s.elems) + Len(xs) <= s.cap
    THEN [s EXCEPT !.elems = @ \o xs]
    ELSE [array |-> OwnArray, elems |-> s.elems \o xs, cap |-> Len(s.elems) + Len(xs)]

\* a variant that appends to the default list itself
getPaginationTokenFieldsNoCopy == AppendSlice(DefaultsSlice, config.CustomTokenFields)

\* default fields followed by the configured custom fields, as a list of its own
getPaginationTokenFields ==
    LET fields == CopySlice(MakeSlice(Len(defaults)), DefaultsSlice)
    IN  AppendSlice(fields, config.CustomTokenFields)

(***************************************************************************)
(* stringSliceFlag, the flag.Value of -custom-fields.                      *)
(***************************************************************************)
\* strings.Split(s, sep) for a separator that is not empty
RECURSIVE StringsSplit(_, _)
StringsSplit(s, sep) ==
    LET i == StringsIndex(s, sep)
    IN  IF i < 0 THEN <<s>>
        ELSE <<SliceTo(s, i)>> \o StringsSplit(SliceFrom(s, i + Len(sep)), sep)

\* strings.Join(elems, sep)
RECURSIVE StringsJoin(_, _)
StringsJoin(elems, sep) ==
    IF Len(elems) = 0 THEN ""
    ELSE IF Len(elems) = 1 THEN elems[1]
    ELSE elems[1] \o sep \o StringsJoin(Tail(elems), sep)

NilError == "nil"

\* a variant of Set that replaces the list by the pieces of the value
stringSliceFlagSetReplacing(s, value) ==
    [list |-> IF value = "" THEN s ELSE StringsSplit(value, ","), err |-> NilError]

\* (*stringSliceFlag).Set: the list afterwards and the error returned
stringSliceFlagSet(s, value) ==
    IF value = "" THEN [list |-> s, err |-> NilError]
    ELSE [list |-> s \o StringsSplit(value, ","), err |-> NilError]

\* (*stringSliceFlag).String
stringSliceFlagString(s) == StringsJoin(s, ",")

(***************************************************************************)
(* Field Resolver.  The Go functions share a mutable seen map; here each   *)
(* returns its answer together with the map as it leaves it.               *)
(***************************************************************************)
Unwrap(t) == IF Kind(t) = "Pointer" THEN types[t].elem ELSE t

Underlying(t) == IF Kind(t) = "Named" THEN types[t].underlying ELSE t

HasDirectField(st, fieldName) ==
    \E i \in DOMAIN types[st].fields : types[st].fields[i].name = fieldName

RECURSIVE hasSpecificField(_, _, _), hasSpecificFieldEmbedded(_, _, _, _)
hasSpecificField(t, fieldName, seen) ==
    LET t1 == Unwrap(t)
        st == Underlying(t1)
        seen1 == seen \cup {t1}
    IN  IF t1 \in seen THEN [found |-> FALSE, seen |-> seen]
        ELSE IF Kind(st) # "Struct" THEN [found |-> FALSE, seen |-> seen1]
        ELSE IF HasDirectField(st, fieldName) THEN [found |-> TRUE, seen |-> seen1]
        ELSE hasSpecificFieldEmbedded(st, 1, fieldName, seen1)

\* the loop over the embedded fields of struct st, from field i on
hasSpecificFieldEmbedded(st, i, fieldName, seen) ==
    IF i > Len(types[st].fields) THEN [found |-> FALSE, seen |-> seen]
    ELSE LET field == types[st].fields[i]
         IN  IF ~field.embedded
             THEN hasSpecificFieldEmbedded(st, i + 1, fieldName, seen)
             ELSE LET r == hasSpecificField(field.type, fieldName, seen)
                  IN  IF r.found THEN r
                      ELSE hasSpecificFieldEmbedded(st, i + 1, fieldName, r.seen)

\* a variant that takes the first candidate in the order the struct declares them
DirectTokenFieldDeclaredFirst(st, candidates) ==
    LET hits == {i \in DOMAIN types[st].fields :
                    \E k \in DOMAIN candidates :
                        candidates[k] = types[st].fields[i].name}
    IN  IF hits = {} THEN ""
        ELSE types[st].fields[CHOOSE i \in hits : \A j \in hits : i <= j].name

\* the first candidate, in priority order, that struct st declares directly
DirectTokenField(st, candidates) ==
    LET hits == {k \in DOMAIN candidates : HasDirectField(st, candidates[k])}
    IN  IF hits = {} THEN ""
        ELSE candidates[CHOOSE k \in hits : \A j \in hits : k <= j]

RECURSIVE hasPaginationTokenFieldRecursive(_, _), tokenFieldEmbedded(_, _, _)
\* a variant that looks into the embedded fields before the direct ones
hasPaginationTokenFieldEmbeddedFirst(t, seen) ==
    LET t1 == Unwrap(t)
        st == Underlying(t1)
        seen1 == seen \cup {t1}
    IN  IF t1 \in seen THEN [field |-> "", seen |-> seen]
        ELSE IF Kind(st) # "Struct" THEN [field |-> "", seen |-> seen1]
        ELSE IF tokenFieldEmbedded(st, 1, seen1).field # ""
             THEN tokenFieldEmbedded(st, 1, seen1)
        ELSE [field |-> DirectTokenField(st, getPaginationTokenFields.elems),
              seen |-> seen1]

hasPaginationTokenFieldRecursive(t, seen) ==
    LET t1 == Unwrap(t)
        st == Underlying(t1)
        seen1 == seen \cup {t1}
    IN  IF t1 \in seen THEN [field |-> "", seen |-> seen]
        ELSE IF Kind(st) # "Struct" THEN [field |-> "", seen |-> seen1]
        ELSE IF DirectTokenField(st, getPaginationTokenFields.elems) # ""
             THEN [field |-> DirectTokenField(st, getPaginationTokenFields.elems),
                   seen |-> seen1]
        ELSE tokenFieldEmbedded(st, 1, seen1)

\* a variant that descends into every field, embedded or not
tokenFieldEveryField(st, i, seen) ==
    IF i > Len(types[st].fields) THEN [field |-> "", seen |-> seen]
    ELSE LET r == hasPaginationTokenFieldRecursive(types[st].fields[i].type, seen)
         IN  IF r.field # "" THEN r
             ELSE tokenFieldEmbedded(st, i + 1, r.seen)

\* a variant that does not follow embedded pointers
tokenFieldEmbeddedNoPointer(st, i, seen) ==
    IF i > Len(types[st].fields) THEN [field |-> "", seen |-> seen]
    ELSE LET field == types[st].fields[i]
         IN  IF ~field.embedded \/ Kind(field.type) = "Pointer"
             THEN tokenFieldEmbedded(st, i + 1, seen)
             ELSE LET r == hasPaginationTokenFieldRecursive(field.type, seen)
                  IN  IF r.field # "" THEN r
                      ELSE tokenFieldEmbedded(st, i + 1, r.seen)

tokenFieldEmbedded(st, i, seen) ==
    IF i > Len(types[st].fields) THEN [field |-> "", seen |-> seen]
    ELSE LET field == types[st].fields[i]
         IN  IF ~field.embedded THEN tokenFieldEmbedded(st, i + 1, seen)
             ELSE LET r == hasPaginationTokenFieldRecursive(field.type, seen)
                  IN  IF r.field # "" THEN r
                      ELSE tokenFieldEmbedded(st, i + 1, r.seen)

\* the loop of hasPaginationTokenField over the service's fields, from the k-th on,
\* all on one seen map
RECURSIVE specificFieldLoop(_, _, _, _)
specificFieldLoop(t, serviceFields, k, seen) ==
    IF k > Len(serviceFields) THEN [field |-> "", seen |-> seen]
    ELSE LET r == hasSpecificField(t, serviceFields[k], seen)
         IN  IF r.found THEN [field |-> serviceFields[k], seen |-> r.seen]
             ELSE specificFieldLoop(t, serviceFields, k + 1, r.seen)

IsKnownService(serviceName) ==
    /\ serviceName # ""
    /\ StringsToLower(serviceName) \in DOMAIN apiSpecificPaginationFields

ServiceFields(serviceName) == apiSpecificPaginationFields[StringsToLower(serviceName)]

hasPaginationTokenField(t, serviceName) ==
    LET specific == IF IsKnownService(serviceName)
                    THEN specificFieldLoop(t, ServiceFields(serviceName), 1, {})
                    ELSE [field |-> "", seen |-> {}]
    IN  IF specific.field # "" THEN specific.field
        ELSE hasPaginationTokenFieldRecursive(t, specific.seen).field

\* a variant that returns every generic candidate the type has
getAllPaginationTokenFieldsEveryGeneric(t, serviceName) ==
    LET specific == IF IsKnownService(serviceName)
                    THEN SelectSeq(ServiceFields(serviceName),
                                   LAMBDA f : hasSpecificField(t, f, {}).found)
                    ELSE <<>>
    IN  IF Len(specific) > 0 THEN specific
        ELSE SelectSeq(getPaginationTokenFields.elems,
                       LAMBDA f : hasSpecificField(t, f, {}).found)

getAllPaginationTokenFields(t, serviceName) ==
    LET specific == IF IsKnownService(serviceName)
                    THEN SelectSeq(ServiceFields(serviceName),
                                   LAMBDA f : hasSpecificField(t, f, {}).found)
                    ELSE <<>>
        defaultField == hasPaginationTokenFieldRecursive(t, {}).field
    IN  IF Len(specific) > 0 THEN specific
        ELSE IF defaultField # "" THEN <<defaultField>>
        ELSE <<>>

(***************************************************************************)
(* Consumption Scanner.                                                    *)
(***************************************************************************)
SeqRange(q) == {q[i] : i \in DOMAIN q}

\* a variant that counts only the first of tokenFields
IsTokenAccessFirstOnly(node, varName, tokenFields) ==
    /\ node.kind = "SelectorExpr"
    /\ Len(tokenFields) > 0
    /\ node.Sel = tokenFields[1]
    /\ node.X.kind = "Ident"
    /\ node.X.name = varName

\* a selector expression varName.f with f one of tokenFields
IsTokenAccess(node, varName, tokenFields) ==
    /\ node.kind = "SelectorExpr"
    /\ node.Sel \in SeqRange(tokenFields)
    /\ node.X.kind = "Ident"
    /\ node.X.name = varName

\* a variant that knows the paginator methods but not the constructors
IsPaginatorNameMethodsOnly(n) ==
    \/ n = "HasMorePages"
    \/ n = "NextPage"

\* a variant that takes a member named Paginator for a paginator constructor
IsPaginatorNameAnyLength(n) ==
    \/ Len(n) >= 9 /\ SubSeq(n, Len(n) - 9 + 1, Len(n)) = "Paginator"
    \/ n = "HasMorePages"
    \/ n = "NextPage"

\* the member name of a paginator constructor or paginator method
IsPaginatorName(n) ==
    \/ Len(n) > 9 /\ SubSeq(n, Len(n) - 9 + 1, Len(n)) = "Paginator"
    \/ n = "HasMorePages"
    \/ n = "NextPage"

IsPaginatorCall(node) ==
    /\ node.kind = "CallExpr"
    /\ node.Fun.kind = "SelectorExpr"
    /\ IsPaginatorName(node.Fun.Sel)

\* a variant that counts a token read only after the first statement that binds
\* varName
hasPaginationHandlingAfterBinding(body, varName, tokenFields) ==
    LET binds == {k \in DOMAIN body :
                     /\ body[k].kind = "AssignStmt"
                     /\ \E i \in DOMAIN body[k].Lhs : body[k].Lhs[i] = Ident(varName)}
        from == IF binds = {} THEN 1
                ELSE 1 + CHOOSE k \in binds : \A j \in binds : k <= j
        hasTokenAccess ==
            \E node \in BodyNodes(SubSeq(body, from, Len(body))) :
                IsTokenAccess(node, varName, tokenFields)
        hasPaginatorUsage == \E node \in BodyNodes(body) : IsPaginatorCall(node)
    IN  hasTokenAccess \/ hasPaginatorUsage

hasPaginationHandling(body, varName, tokenFields) ==
    LET hasTokenAccess ==
            \E node \in BodyNodes(body) : IsTokenAccess(node, varName, tokenFields)
        hasPaginatorUsage == \E node \in BodyNodes(body) : IsPaginatorCall(node)
    IN  hasTokenAccess \/ hasPaginatorUsage

(***************************************************************************)
(* Provenance Checker.                                                     *)
(***************************************************************************)
SDKServiceMarker == "aws-sdk-go-v2/service/"

\* a variant that accepts any version of the SDK
isAWSSDKPackageAnyVersion(pkgPath) == StringsContains(pkgPath, "aws-sdk-go")

isAWSSDKPackage(pkgPath) == StringsContains(pkgPath, SDKServiceMarker)

RECURSIVE isAWSSDKTypeRecursive(_, _), isAWSSDKTypeFields(_, _, _)
\* a variant that takes a type met for the second time for an SDK type
isAWSSDKTypeRecursiveSeenTrusted(t, seen) ==
    LET t1 == Unwrap(t)
        st == Underlying(t1)
        seen1 == seen \cup {t1}
    IN  IF t1 \in seen THEN [ok |-> TRUE, seen |-> seen]
        ELSE IF /\ Kind(t1) = "Named"
                /\ types[t1].hasPkg
                /\ isAWSSDKPackage(types[t1].pkg)
             THEN [ok |-> TRUE, seen |-> seen1]
        ELSE IF Kind(st) = "Struct" THEN isAWSSDKTypeFields(st, 1, seen1)
        ELSE [ok |-> FALSE, seen |-> seen1]

isAWSSDKTypeRecursive(t, seen) ==
    LET t1 == Unwrap(t)
        st == Underlying(t1)
        seen1 == seen \cup {t1}
    IN  IF t1 \in seen THEN [ok |-> FALSE, seen |-> seen]
        ELSE IF /\ Kind(t1) = "Named"
                /\ types[t1].hasPkg
                /\ isAWSSDKPackage(types[t1].pkg)
             THEN [ok |-> TRUE, seen |-> seen1]
        ELSE IF Kind(st) = "Struct" THEN isAWSSDKTypeFields(st, 1, seen1)
        ELSE [ok |-> FALSE, seen |-> seen1]

\* the loop over all the fields of struct st, from field i on
isAWSSDKTypeFields(st, i, seen) ==
    IF i > Len(types[st].fields) THEN [ok |-> FALSE, seen |-> seen]
    ELSE LET r == isAWSSDKTypeRecursive(types[st].fields[i].type, seen)
         IN  IF r.ok THEN r ELSE isAWSSDKTypeFields(st, i + 1, r.seen)

isAWSSDKType(t) == isAWSSDKTypeRecursive(t, {}).ok

(***************************************************************************)
(* Namespace extraction and the call-site extractor.                       *)
(***************************************************************************)
\* a variant that keeps the sub-packages of the service
extractServiceNameWithSubPackages(pkgPath) ==
    LET idx == StringsIndex(pkgPath, SDKServiceMarker)
    IN  IF idx < 0 THEN ""
        ELSE SliceFrom(pkgPath, idx + Len(SDKServiceMarker))

extractServiceNameFromPackage(pkgPath) ==
    LET idx == StringsIndex(pkgPath, SDKServiceMarker)
        servicePath == SliceFrom(pkgPath, idx + Len(SDKServiceMarker))
        slashIdx == StringsIndex(servicePath, "/")
    IN  IF idx < 0 THEN ""
        ELSE IF slashIdx >= 0 THEN SliceTo(servicePath, slashIdx)
        ELSE servicePath

\* a variant that takes the last of the values a call returns
extractResultTypeLastValue(callExpr) ==
    IF callExpr.typ = "" THEN ""
    ELSE IF Kind(callExpr.typ) = "Tuple"
         THEN IF Len(types[callExpr.typ].elems) > 0
              THEN types[callExpr.typ].elems[Len(types[callExpr.typ].elems)]
              ELSE ""
    ELSE callExpr.typ

\* "" stands for the nil type
extractResultType(callExpr) ==
    IF callExpr.typ = "" THEN ""
    ELSE IF Kind(callExpr.typ) = "Tuple"
         THEN IF Len(types[callExpr.typ].elems) > 0
              THEN types[callExpr.typ].elems[1]
              ELSE ""
    ELSE callExpr.typ

\* a variant that takes the blank identifier for a variable
extractVariableNameWithBlank(lhs) ==
    IF lhs.kind # "Ident" THEN "" ELSE lhs.name

extractVariableName(lhs) ==
    IF lhs.kind # "Ident" THEN ""
    ELSE IF lhs.name = "_" THEN ""
    ELSE lhs.name

extractAPICallInfo(callExpr, resultType) ==
    LET t1 == Unwrap(resultType)
        named == Kind(t1) = "Named"
    IN  [methodName |-> IF callExpr.Fun.kind = "SelectorExpr" THEN callExpr.Fun.Sel
                        ELSE "",
         typeName |-> IF named THEN types[t1].name ELSE "",
         serviceName |-> IF named /\ types[t1].hasPkg
                         THEN extractServiceNameFromPackage(types[t1].pkg)
                         ELSE ""]

(***************************************************************************)
(* Diagnostic Builder.                                                     *)
(***************************************************************************)
\* the fields from the i-th on, each after the first preceded by ", ", the last by
\* ", and "
RECURSIVE FieldList(_, _)
\* a variant that writes " and " before the last field
FieldListNoSerialComma(tokenFields, i) ==
    IF i > Len(tokenFields) THEN ""
    ELSE (IF i = 1 THEN ""
          ELSE IF i = Len(tokenFields) THEN " and "
          ELSE ", ")
         \o tokenFields[i] \o FieldList(tokenFields, i + 1)

FieldList(tokenFields, i) ==
    IF i > Len(tokenFields) THEN ""
    ELSE (IF i = 1 THEN ""
          ELSE IF i = Len(tokenFields) THEN ", and "
          ELSE ", ")
         \o tokenFields[i] \o FieldList(tokenFields, i + 1)

\* a variant that names the paginator as soon as the method or the service is known
buildErrorMessageEitherKnown(tokenFields, varName, info) ==
    "missing pagination handling for AWS SDK List API call"
    \o (IF Len(tokenFields) = 0 THEN ""
        ELSE IF Len(tokenFields) = 1
             THEN " (result has " \o tokenFields[1] \o " field)"
        ELSE " (result has " \o FieldList(tokenFields, 1) \o " fields)")
    \o "\nWhen there are many results, only the first page is returned. Use "
    \o (IF info.serviceName # "" \/ info.methodName # ""
        THEN "New" \o info.methodName \o "Paginator"
        ELSE "a paginator")
    \o " or loop with "
    \o (IF varName # "" THEN varName \o "." ELSE "")
    \o (IF Len(tokenFields) = 0 THEN ""
        ELSE IF Len(tokenFields) = 1 THEN tokenFields[1] \o "."
        ELSE tokenFields[1] \o " (or other pagination fields).")

\* a variant that breaks the line after the impact sentence
buildErrorMessageImpactFirst(tokenFields, varName, info) ==
    "missing pagination handling for AWS SDK List API call"
    \o (IF Len(tokenFields) = 0 THEN ""
        ELSE IF Len(tokenFields) = 1
             THEN " (result has " \o tokenFields[1] \o " field)"
        ELSE " (result has " \o FieldList(tokenFields, 1) \o " fields)")
    \o " When there are many results, only the first page is returned.\nUse "
    \o (IF info.serviceName # "" /\ info.methodName # ""
        THEN "New" \o info.methodName \o "Paginator"
        ELSE "a paginator")
    \o " or loop with "
    \o (IF varName # "" THEN varName \o "." ELSE "")
    \o (IF Len(tokenFields) = 0 THEN ""
        ELSE IF Len(tokenFields) = 1 THEN tokenFields[1] \o "."
        ELSE tokenFields[1] \o " (or other pagination fields).")

buildErrorMessage(tokenFields, varName, info) ==
    "missing pagination handling for AWS SDK List API call"
    \o (IF Len(tokenFields) = 0 THEN ""
        ELSE IF Len(tokenFields) = 1
             THEN " (result has " \o tokenFields[1] \o " field)"
        ELSE " (result has " \o FieldList(tokenFields, 1) \o " fields)")
    \o "\nWhen there are many results, only the first page is returned. Use "
    \o (IF info.serviceName # "" /\ info.methodName # ""
        THEN "New" \o info.methodName \o "Paginator"
        ELSE "a paginator")
    \o " or loop with "
    \o (IF varName # "" THEN varName \o "." ELSE "")
    \o (IF Len(tokenFields) = 0 THEN ""
        ELSE IF Len(tokenFields) = 1 THEN tokenFields[1] \o "."
        ELSE tokenFields[1] \o " (or other pagination fields).")

(***************************************************************************)
(* checkAssignment.                                                        *)
(***************************************************************************)
\* the position of the i-th right-hand expression of a statement
CallPos(assignStmt, i) == Append(assignStmt.pos, i)

\* one iteration of the loop over assignStmt.Rhs: the diagnostics it reports
checkRhs(assignStmt, i, funcDecl) ==
    LET callExpr == assignStmt.Rhs[i]
        resultType == extractResultType(callExpr)
        apiInfo == extractAPICallInfo(callExpr, resultType)
        tokenField == hasPaginationTokenField(resultType, apiInfo.serviceName)
        varName == extractVariableName(assignStmt.Lhs[i])
        allTokenFields == getAllPaginationTokenFields(resultType, apiInfo.serviceName)
    IN  IF callExpr.kind # "CallExpr" THEN <<>>
        ELSE IF i > Len(assignStmt.Lhs) THEN <<>>
        ELSE IF resultType = "" THEN <<>>
        ELSE IF tokenField = "" THEN <<>>
        ELSE IF ~isAWSSDKType(resultType) THEN <<>>
        ELSE IF varName = "" THEN <<>>
        ELSE IF Len(allTokenFields) = 0 THEN <<>>
        ELSE IF hasPaginationHandling(funcDecl.body, varName, allTokenFields) THEN <<>>
        ELSE <<[pos |-> CallPos(assignStmt, i),
                message |-> buildErrorMessage(allTokenFields, varName, apiInfo)]>>

RECURSIVE checkRhsFrom(_, _, _)
checkRhsFrom(assignStmt, i, funcDecl) ==
    IF i > Len(assignStmt.Rhs) THEN <<>>
    ELSE checkRhs(assignStmt, i, funcDecl) \o checkRhsFrom(assignStmt, i + 1, funcDecl)

\* a variant that scans the bodies of all the function declarations of the package
RECURSIVE AllBodiesFrom(_, _)
AllBodiesFrom(f, d) ==
    IF f > Len(files) THEN <<>>
    ELSE IF d > Len(files[f].decls) THEN AllBodiesFrom(f + 1, 1)
    ELSE files[f].decls[d].body \o AllBodiesFrom(f, d + 1)

checkAssignmentAnyBody(assignStmt, funcDecl) ==
    checkRhsFrom(assignStmt, 1, [funcDecl EXCEPT !.body = AllBodiesFrom(1, 1)])

\* the diagnostics checkAssignment reports for one statement, in order
checkAssignment(assignStmt, funcDecl) == checkRhsFrom(assignStmt, 1, funcDecl)

(***************************************************************************)
(* The inspector (golang.org/x/tools/go/ast/inspector): the push and pop   *)
(* events of the FuncDecl and AssignStmt nodes of the package, in          *)
(* traversal order.  span is the number of events from a push to its pop.  *)
(* A statement of a declaration's body is stmt; a statement of a function  *)
(* literal in statement stmt is inner (0 for the statement itself).        *)
(***************************************************************************)
Event(k, f, d, st, inner, push, span) ==
    [kind |-> k, file |-> f, decl |-> d, stmt |-> st, inner |-> inner,
     push |-> push, span |-> span]

\* the events of the statements of body from st on; outer is the statement
\* that holds body as a function literal, 0 for the body of a declaration
RECURSIVE StmtEvents(_, _, _, _, _)
StmtEvents(f, d, outer, body, st) ==
    IF st > Len(body) THEN <<>>
    ELSE (IF body[st].kind = "AssignStmt"
          THEN LET top == IF outer = 0 THEN st ELSE outer
                   sub == IF outer = 0 THEN 0 ELSE st
               IN  <<Event("AssignStmt", f, d, top, sub, TRUE, 2),
                     Event("AssignStmt", f, d, top, sub, FALSE, 0)>>
          ELSE IF body[st].kind = "DeferStmt"
               THEN StmtEvents(f, d, st, body[st].Body, 1)
          ELSE <<>>)
         \o StmtEvents(f, d, outer, body, st + 1)

DeclEvents(f, d, decl) ==
    LET inner == StmtEvents(f, d, 0, decl.body, 1)
    IN  IF decl.kind = "GenDecl" THEN inner
        ELSE <<Event("FuncDecl", f, d, 0, 0, TRUE, Len(inner) + 2)>> \o inner
             \o <<Event("FuncDecl", f, d, 0, 0, FALSE, 0)>>

RECURSIVE FileEvents(_, _, _), PackageEvents(_, _)
FileEvents(f, decls, d) ==
    IF d > Len(decls) THEN <<>>
    ELSE DeclEvents(f, d, decls[d]) \o FileEvents(f, decls, d + 1)

PackageEvents(fs, f) ==
    IF f > Len(fs) THEN <<>>
    ELSE FileEvents(f, fs[f].decls, 1) \o PackageEvents(fs, f + 1)

Events == PackageEvents(files, 1)

(***************************************************************************)
(* run: the callback of inspector.Nodes, one action per way through it.    *)
(***************************************************************************)
NilFunc == [file |-> 0, decl |-> 0]

\* no configuration function has been called
NoCall == [op |-> "none"]

FuncDeclAt(ref) == files[ref.file].decls[ref.decl]

Running == cursor <= Len(Events)

\* the filter without the IncludeTests switch: test files are always left out
IsSkippedFileIgnoringConfig(ev) ==
    StringsHasSuffix(files[ev.file].name, "_test.go")

\* the test-file filter at the top of the callback trips
IsSkippedFile(ev) ==
    /\ ~config.IncludeTests
    /\ StringsHasSuffix(files[ev.file].name, "_test.go")

\* the callback returns false: the node's children and its pop are skipped
SkipTestFileNode ==
    /\ Running
    /\ IsSkippedFile(Events[cursor])
    /\ cursor' = IF Events[cursor].push THEN cursor + Events[cursor].span
                 ELSE cursor + 1
    /\ UNCHANGED <<config, defaults, lastCall, types, files, currentFunc, reports>>

EnterFuncDecl ==
    /\ Running
    /\ ~IsSkippedFile(Events[cursor])
    /\ Events[cursor].push
    /\ Events[cursor].kind = "FuncDecl"
    /\ currentFunc' = [file |-> Events[cursor].file, decl |-> Events[cursor].decl]
    /\ cursor' = cursor + 1
    /\ UNCHANGED <<config, defaults, lastCall, types, files, reports>>

EnterAssignStmt ==
    /\ Running
    /\ ~IsSkippedFile(Events[cursor])
    /\ Events[cursor].push
    /\ Events[cursor].kind = "AssignStmt"
    /\ reports' =
          IF currentFunc = NilFunc \/ ~FuncDeclAt(currentFunc).hasBody THEN reports
          ELSE LET ev == Events[cursor]
                   top == files[ev.file].decls[ev.decl].body[ev.stmt]
                   node == IF ev.inner = 0 THEN top ELSE top.Body[ev.inner]
               IN  reports \o checkAssignment(node, FuncDeclAt(currentFunc))
    /\ cursor' = cursor + 1
    /\ UNCHANGED <<config, defaults, lastCall, types, files, currentFunc>>

\* a variant that keeps the function of the declaration it leaves
LeaveFuncDeclKeepingContext ==
    /\ Running
    /\ ~IsSkippedFile(Events[cursor])
    /\ ~Events[cursor].push
    /\ Events[cursor].kind = "FuncDecl"
    /\ cursor' = cursor + 1
    /\ UNCHANGED <<config, defaults, lastCall, types, files, currentFunc, reports>>

LeaveFuncDecl ==
    /\ Running
    /\ ~IsSkippedFile(Events[cursor])
    /\ ~Events[cursor].push
    /\ Events[cursor].kind = "FuncDecl"
    /\ currentFunc' = NilFunc
    /\ cursor' = cursor + 1
    /\ UNCHANGED <<config, defaults, lastCall, types, files, reports>>

LeaveAssignStmt ==
    /\ Running
    /\ ~IsSkippedFile(Events[cursor])
    /\ ~Events[cursor].push
    /\ Events[cursor].kind = "AssignStmt"
    /\ cursor' = cursor + 1
    /\ UNCHANGED <<config, defaults, lastCall, types, files, currentFunc, reports>>

Next ==
    \/ SkipTestFileNode
    \/ EnterFuncDecl
    \/ EnterAssignStmt
    \/ LeaveFuncDecl
    \/ LeaveAssignStmt

(***************************************************************************)
(* The analysed packages.  A package is built around one API method with   *)
(* result type rt (the entry of TypesInfo.Types for the calls to it): its  *)
(* functions hold calls to the method bound in the ways Go allows, reads   *)
(* of the fields the result has, and uses of a paginator.                  *)
(***************************************************************************)
SeqsUpTo(S, n) == UNION {[1..k -> S] : k \in 0..n}

AllCandidateNames ==
    SeqRange(defaultPaginationTokenFields)
    \cup UNION {SeqRange(apiSpecificPaginationFields[k]) :
                    k \in DOMAIN apiSpecificPaginationFields}
    \cup {"CustomToken"}

\* the type of the first value of a call with result rt
FirstResult(rt) ==
    IF rt = "" THEN ""
    ELSE IF Kind(rt) = "Tuple"
         THEN IF Len(types[rt].elems) > 0 THEN types[rt].elems[1] ELSE ""
    ELSE rt

\* the fields a Go selector can name on a value of type t: its own and those
\* promoted from embedded structs
RECURSIVE PromotedFields(_, _)
PromotedFields(t, seen) ==
    LET t0 == IF Kind(Unwrap(t)) = "Alias" THEN types[Unwrap(t)].elem ELSE Unwrap(t)
        st == Underlying(t0)
    IN  IF t0 \in seen \/ Kind(st) # "Struct" THEN {}
        ELSE {types[st].fields[i].name : i \in DOMAIN types[st].fields}
             \cup UNION {PromotedFields(types[st].fields[i].type, seen \cup {t0}) :
                            i \in {j \in DOMAIN types[st].fields :
                                      types[st].fields[j].embedded}}

TokenFieldsOf(rt) == PromotedFields(FirstResult(rt), {}) \cap AllCandidateNames

PlainFieldsOf(rt) == PromotedFields(FirstResult(rt), {}) \ AllCandidateNames

\* the API method returning rt: ListTasks for ListTasksOutput
MethodName(rt) ==
    LET t == Unwrap(FirstResult(rt))
        n == types[t].name
    IN  IF Kind(t) = "Named" /\ StringsHasSuffix(n, "Output")
        THEN SliceTo(n, Len(n) - Len("Output"))
        ELSE "Fetch"

CallOn(rt) ==
    CallExpr(SelectorExpr(Ident("client"), MethodName(rt)),
             <<Ident("ctx"), Ident("input")>>, rt)

\* the left-hand side binding the first value of a call with result rt to target
LhsFor(rt, target) ==
    IF Kind(rt) = "Tuple" THEN <<target, Ident("err")>> ELSE <<target>>

\* result, err := client.M(ctx, input)
BindResult(rt) == AssignStmt(LhsFor(rt, Ident("result")), <<CallOn(rt)>>)
\* _, err = client.M(ctx, input)
BindBlank(rt) == AssignStmt(LhsFor(rt, Ident("_")), <<CallOn(rt)>>)
\* holder.result, err = client.M(ctx, input)
BindField(rt) ==
    AssignStmt(LhsFor(rt, SelectorExpr(Ident("holder"), "result")), <<CallOn(rt)>>)
\* result, other := wrap(a), wrap(b): two single-valued calls in one statement
BindTwo(rt) ==
    AssignStmt(<<Ident("result"), Ident("other")>>,
               <<CallExpr(SelectorExpr(Ident("client"), "First"), <<Ident("a")>>,
                          FirstResult(rt)),
                 CallExpr(Ident("wrap"), <<Ident("b")>>, FirstResult(rt))>>)
\* if v.f == nil { break }
ReadField(v, f) == CondStmt(SelectorExpr(Ident(v), f))
\* if holder.result.f == nil { break }
ReadNested(f) == CondStmt(SelectorExpr(SelectorExpr(Ident("holder"), "result"), f))
\* _ = result.f
DiscardField(f) == AssignStmt(<<Ident("_")>>, <<SelectorExpr(Ident("result"), f)>>)
\* for paginator.HasMorePages() { }
LoopHasMorePages ==
    CondStmt(CallExpr(SelectorExpr(Ident("paginator"), "HasMorePages"), <<>>, "bool"))
\* page, err := paginator.NextPage(ctx)
BindNextPage(rt) ==
    AssignStmt(LhsFor(rt, Ident("page")),
               <<CallExpr(SelectorExpr(Ident("paginator"), "NextPage"),
                          <<Ident("ctx")>>, rt)>>)
\* paginator := ecs.NewListTasksPaginator(client, input)
BindPaginator ==
    AssignStmt(<<Ident("paginator")>>,
               <<CallExpr(SelectorExpr(Ident("ecs"), "NewListTasksPaginator"),
                          <<Ident("client"), Ident("input")>>,
                          "*ecs.ListTasksPaginator")>>)
\* the statements that bind a call to the method
BindStmts(rt) == {BindResult(rt), BindBlank(rt)}

\* the statements that read a token field of the bound result
TokenReads(rt) == {ReadField("result", f) : f \in TokenFieldsOf(rt)}

CoreStmts(rt) == BindStmts(rt) \cup TokenReads(rt) \cup {LoopHasMorePages}

\* one of the fields of S, if it has any
OneOf(S) == IF S = {} THEN {} ELSE {CHOOSE f \in S : TRUE}

AllStmts(rt) ==
    CoreStmts(rt)
    \cup {BindField(rt), BindTwo(rt), BindNextPage(rt), BindPaginator}
    \* if client.Paginator() { }: a member named Paginator and nothing more
    \cup {CondStmt(CallExpr(SelectorExpr(Ident("client"), "Paginator"), <<>>, "bool"))}
    \cup {ReadField("input", f) : f \in TokenFieldsOf(rt)}
    \cup {ReadNested(f) : f \in OneOf(TokenFieldsOf(rt))}
    \cup {DiscardField(f) : f \in OneOf(PlainFieldsOf(rt))}

\* bodies of the functions beside the one under analysis
HelperDecls(rt) ==
    {FuncDecl("helper", TRUE, <<st>>) :
        st \in {ReadField("result", f) : f \in OneOf(TokenFieldsOf(rt))}
               \cup {LoopHasMorePages}}
    \cup {FuncDecl("external", FALSE, <<>>)}

\* a call to the method alone, or with one handling statement before or after it
CallBodies(rt) ==
    {<<b>> : b \in BindStmts(rt)}
    \cup {<<b, h>> : b \in BindStmts(rt), h \in TokenReads(rt) \cup {LoopHasMorePages}}
    \cup {<<h, b>> : b \in BindStmts(rt), h \in TokenReads(rt) \cup {LoopHasMorePages}}

\* go/parser: the files of a package with the position of each statement set:
\* file, declaration, statement, and the statement of a function literal in it
Parse(fs) ==
    LET StampDecl(f, d, decl) ==
            [decl EXCEPT !.body = [st \in DOMAIN decl.body |->
                IF decl.body[st].kind = "DeferStmt"
                THEN [decl.body[st] EXCEPT
                         !.pos = <<f, d, st>>,
                         !.Body = [k \in DOMAIN @ |->
                                      [@[k] EXCEPT !.pos = <<f, d, st, k>>]]]
                ELSE [decl.body[st] EXCEPT !.pos = <<f, d, st>>]]]
        StampFile(f, file) ==
            [file EXCEPT !.decls = [d \in DOMAIN file.decls |->
                                       StampDecl(f, d, file.decls[d])]]
    IN  [f \in DOMAIN fs |-> StampFile(f, fs[f])]

\* the types API calls of the analysed packages return
OutputTypeIds ==
    {id \in TypeIds : TypeTable[id].kind = "Named" /\ ResultIdOf(id) \in TypeIds}

CallTypes ==
    {ResultIdOf(id) : id \in OutputTypeIds}
    \cup {"(struct{NextToken}, error)", "(**ecs.ListTasksOutput, error)",
          "(test.WrappedResponse, error)", "*ecs.ListTasksOutput"}

\* the result types analysed with every kind of statement and among other
\* functions
FocusTypes ==
    {ResultIdOf("ecs.ListTasksOutput"),
     ResultIdOf("route53.ListResourceRecordSetsOutput"),
     ResultIdOf("dynamodb.ListExportsOutput"),
     ResultIdOf("test.WrappedResponse"),
     ResultIdOf("test.CustomResult")}

\* the types a type refers to
TypeRefs(id) ==
    ({TypeTable[id].elem, TypeTable[id].underlying} \ {""})
    \cup {TypeTable[id].fields[i].type : i \in DOMAIN TypeTable[id].fields}
    \cup SeqRange(TypeTable[id].elems)

RECURSIVE TypeClosure(_)
TypeClosure(S) ==
    LET S2 == S \cup UNION {TypeRefs(id) : id \in S}
    IN  IF S2 = S THEN S ELSE TypeClosure(S2)

\* the type graph of a package that calls a method with result rt and the
\* paginator of ecs.ListTasks, declares variables of type any and calls a
\* function without results
TypesInfo(rt) ==
    [id \in TypeClosure({rt, "bool", "*ecs.ListTasksPaginator", "any", "()"})
        |-> TypeTable[id]]

DefaultConfig == [CustomTokenFields |-> <<>>, IncludeTests |-> FALSE]

\* one function, any statements
SingleFunctionInputs(rt) ==
    {[config |-> DefaultConfig,
      files |-> <<SourceFile("basic.go", <<FuncDecl("list", TRUE, body)>>)>>] :
        body \in SeqsUpTo(IF rt \in FocusTypes THEN AllStmts(rt) ELSE CoreStmts(rt),
                          MaxStmts)}

\* the function under analysis among helper functions, in any order
RECURSIVE DeclSeqs(_, _)
DeclSeqs(rt, n) ==
    IF n = 0 THEN {<<>>}
    ELSE DeclSeqs(rt, n - 1)
         \cup {Append(ds, h) : ds \in DeclSeqs(rt, n - 1), h \in HelperDecls(rt)}

MultiFunctionInputs(rt) ==
    IF rt \notin FocusTypes THEN {}
    ELSE {[config |-> DefaultConfig,
           files |-> <<SourceFile("basic.go",
                         before \o <<FuncDecl("list", TRUE, body)>> \o after)>>] :
             <<body, before, after>> \in
                 {<<b, x, y>> \in CallBodies(rt)
                                   \X DeclSeqs(rt, MaxFuncs - 1)
                                   \X DeclSeqs(rt, MaxFuncs - 1) :
                     Len(x) + Len(y) + 1 <= MaxFuncs}}

\* a test file beside a regular file, with test files included or not
TestFileInputs(rt) ==
    IF rt # ResultIdOf("ecs.ListTasksOutput") THEN {}
    ELSE {[config |-> [DefaultConfig EXCEPT !.IncludeTests = inc],
           files |-> <<SourceFile("basic.go",
                         <<FuncDecl("list", TRUE, <<BindResult(rt)>>)>>),
                       SourceFile("helper_test.go",
                         <<FuncDecl("helper", TRUE, body)>>)>>] :
             inc \in BOOLEAN,
             body \in SeqsUpTo(CoreStmts(rt), MaxStmts)}

\* the values of the -custom-fields setting the packages are analysed with
CustomFieldLists == {<<"CustomToken">>, <<"PageCursor">>, <<"PageCursor", "CustomToken">>}

\* the result types whose only token-like field is CustomToken
CustomOnlyTypes ==
    {ResultIdOf("ecs.ListCustomOutput"), ResultIdOf("dynamodb.ListCustomOutput")}

\* one function over a result with a CustomToken field (alone, or after it a
\* NextToken field), with custom fields set
CustomFieldInputs(rt) ==
    IF rt \notin CustomOnlyTypes \cup {ResultIdOf("ecs.ListMixedOutput")} THEN {}
    ELSE {[config |-> [DefaultConfig EXCEPT !.CustomTokenFields = custom],
           files |-> <<SourceFile("basic.go", <<FuncDecl("list", TRUE, body)>>)>>] :
             custom \in CustomFieldLists,
             body \in SeqsUpTo(CoreStmts(rt), MaxStmts)}

\* a function with a deferred function literal, alone or beside a function
\* literal at package level
ClosureInputs(rt) ==
    IF rt # ResultIdOf("ecs.ListTasksOutput") THEN {}
    ELSE {[config |-> DefaultConfig,
           files |-> <<SourceFile("basic.go", decls)>>] :
             decls \in UNION {
                 {<<FuncDecl("badDefer", TRUE, outer \o <<DeferStmt(body)>>)>>,
                  <<FuncDecl("badDefer", TRUE, <<DeferStmt(body)>> \o outer),
                    GenDecl("handler", body)>>,
                  <<GenDecl("handler", body),
                    FuncDecl("list", TRUE, outer)>>} :
                 body \in SeqsUpTo(CoreStmts(rt), MaxStmts) \ {<<>>},
                 outer \in SeqsUpTo(TokenReads(rt) \cup {LoopHasMorePages}, 1)}}

\* one function that binds the call to a variable declared before, of type
\* interface{}, any or the type of the call, with = or := (err is new), or binds
\* it beside a call extractResultType has no type for: one the pass holds no
\* entry for, or one of a function without results
DeclaredTargetInputs(rt) ==
    IF rt \notin {ResultIdOf("ecs.ListTasksOutput"), ResultIdOf("test.CustomResult")}
    THEN {}
    ELSE {[config |-> DefaultConfig,
           files |-> <<SourceFile("basic.go", <<FuncDecl("list", TRUE, body)>>)>>] :
             body \in
                 {<<DeclStmt("result", dt), [BindResult(rt) EXCEPT !.Tok = tok]>> \o tail :
                     dt \in {"interface{}", "any"}, tok \in {"=", ":="},
                     tail \in SeqsUpTo({LoopHasMorePages}, 1)}
                 \cup {<<DeclStmt("result", FirstResult(rt)),
                         [BindResult(rt) EXCEPT !.Tok = tok]>> \o tail :
                          tok \in {"=", ":="},
                          tail \in SeqsUpTo(TokenReads(rt), 1)}
                 \cup {<<AssignStmt(<<Ident("other"), Ident("result")>>,
                                    <<CallExpr(Ident("prepare"), <<Ident("a")>>, none),
                                      CallExpr(SelectorExpr(Ident("client"), "First"),
                                               <<Ident("b")>>, FirstResult(rt))>>)>>
                        \o tail :
                          none \in {"", "()"},
                          tail \in SeqsUpTo(TokenReads(rt), 1)}
                 \cup {<<AssignStmt(<<Ident("result")>>,
                                    <<CallExpr(Ident("prepare"), <<Ident("a")>>, none)>>)>> :
                          none \in {"", "()"}}}

Inputs(rt) ==
    SingleFunctionInputs(rt) \cup MultiFunctionInputs(rt) \cup TestFileInputs(rt)
    \cup CustomFieldInputs(rt) \cup ClosureInputs(rt) \cup DeclaredTargetInputs(rt)

Init ==
    /\ \E rt \in CallTypes :
          /\ types = TypesInfo(rt)
          /\ \E input \in Inputs(rt) :
                /\ config = input.config
                /\ files = Parse(input.files)
    /\ defaults = defaultPaginationTokenFields
    /\ lastCall = NoCall
    /\ cursor = 1
    /\ currentFunc = NilFunc
    /\ reports = <<>>

Spec == Init /\ [][Next]_vars

(***************************************************************************)
(* Configuration.  The functions that write the package variable config    *)
(* (the flags registered by init, New, and an assignment to config as the  *)
(* tests make it) and getPaginationTokenFields, called in any order.       *)
(***************************************************************************)
\* JSON values of the settings a plugin configuration carries
JAbsent == [json |-> "absent"]
JArray(items) == [json |-> "array", items |-> items]
JBool(b) == [json |-> "bool", value |-> b]
JString(v) == [json |-> "string", text |-> v]

\* the settings argument of New: nil, a map with the two keys, or a scalar
NilSettings == [kind |-> "nil", custom |-> JAbsent, include |-> JAbsent]
MapSettings(custom, include) == [kind |-> "map", custom |-> custom, include |-> include]
ScalarSettings == [kind |-> "scalar", custom |-> JAbsent, include |-> JAbsent]

DecodeError == "json: cannot unmarshal"

\* register.DecodeSettings[Settings]: the Settings decoded from the keys
\* custom-fields and include-tests, or the error of the decoder
DecodeSettings(settings) ==
    LET ok == /\ settings.kind # "scalar"
              /\ settings.custom.json \in {"absent", "array"}
              /\ settings.include.json \in {"absent", "bool"}
    IN  IF ~ok
        THEN [s |-> [CustomFields |-> <<>>, IncludeTests |-> FALSE], err |-> DecodeError]
        ELSE [s |-> [CustomFields |-> IF settings.custom.json = "array"
                                      THEN settings.custom.items ELSE <<>>,
                     IncludeTests |-> IF settings.include.json = "bool"
                                      THEN settings.include.value ELSE FALSE],
              err |-> NilError]

\* a list of analyzers: nil, or the analyzers it holds
NilAnalyzers == [isNil |-> TRUE, elems |-> <<>>]
Analyzers(as) == [isNil |-> FALSE, elems |-> as]

\* the package variable Analyzer
Analyzer == "awspagination.Analyzer"

runVars == <<types, files, cursor, currentFunc, reports>>

\* flag -custom-fields=value
FlagSetCustomFields(value) ==
    LET r == stringSliceFlagSet(config.CustomTokenFields, value)
    IN  /\ Len(r.list) <= MaxCustom
        /\ config' = [config EXCEPT !.CustomTokenFields = r.list]
        /\ lastCall' = [op |-> "Set", pre |-> config.CustomTokenFields,
                        arg |-> value, err |-> r.err]
        /\ UNCHANGED <<defaults, runVars>>

\* the flag package prints the value of -custom-fields
FlagStringCustomFields ==
    /\ lastCall' = [op |-> "String", pre |-> config.CustomTokenFields,
                    out |-> stringSliceFlagString(config.CustomTokenFields)]
    /\ UNCHANGED <<config, defaults, runVars>>

\* flag -include-tests=b
FlagSetIncludeTests(b) ==
    /\ config' = [config EXCEPT !.IncludeTests = b]
    /\ lastCall' = [op |-> "BoolVar", arg |-> b]
    /\ UNCHANGED <<defaults, runVars>>

\* a variant of New that adds the decoded fields to the configured ones
NewAppending(settings) ==
    LET d == DecodeSettings(settings)
    IN  /\ config' = IF d.err # NilError THEN config
                     ELSE [CustomTokenFields |-> config.CustomTokenFields \o d.s.CustomFields,
                           IncludeTests |-> d.s.IncludeTests]
        /\ lastCall' = [op |-> "New", pre |-> config, arg |-> settings,
                        out |-> IF d.err # NilError THEN NilAnalyzers
                                ELSE Analyzers(<<Analyzer>>),
                        err |-> d.err]
        /\ UNCHANGED <<defaults, runVars>>

\* a variant of New that applies the settings before it looks at the error
NewApplyingFirst(settings) ==
    LET d == DecodeSettings(settings)
    IN  /\ config' = [CustomTokenFields |-> d.s.CustomFields,
                      IncludeTests |-> d.s.IncludeTests]
        /\ lastCall' = [op |-> "New", pre |-> config, arg |-> settings,
                        out |-> IF d.err # NilError THEN NilAnalyzers
                                ELSE Analyzers(<<Analyzer>>),
                        err |-> d.err]
        /\ UNCHANGED <<defaults, runVars>>

\* New(settings)
New(settings) ==
    LET d == DecodeSettings(settings)
    IN  /\ config' = IF d.err # NilError THEN config
                     ELSE [CustomTokenFields |-> d.s.CustomFields,
                           IncludeTests |-> d.s.IncludeTests]
        /\ lastCall' = [op |-> "New", pre |-> config, arg |-> settings,
                        out |-> IF d.err # NilError THEN NilAnalyzers
                                ELSE Analyzers(<<Analyzer>>),
                        err |-> d.err]
        /\ UNCHANGED <<defaults, runVars>>

\* config = c
ReplaceConfig(c) ==
    /\ config' = c
    /\ lastCall' = [op |-> "assign", arg |-> c]
    /\ UNCHANGED <<defaults, runVars>>

\* fields := getPaginationTokenFields()
CallGetPaginationTokenFields ==
    /\ lastCall' = [op |-> "getPaginationTokenFields",
                    out |-> getPaginationTokenFields, writes |-> 0]
    /\ UNCHANGED <<config, defaults, runVars>>

\* fields[i-1] = v, by the caller that holds the returned list
ModifyReturned(i, v) ==
    /\ lastCall.op = "getPaginationTokenFields"
    /\ lastCall.writes < MaxWrites
    /\ i \in DOMAIN lastCall.out.elems
    /\ lastCall' = [lastCall EXCEPT !.out.elems[i] = v, !.writes = @ + 1]
    /\ defaults' = IF lastCall.out.array = DefaultsArray /\ i \in DOMAIN defaults
                   THEN [defaults EXCEPT ![i] = v]
                   ELSE defaults
    /\ UNCHANGED <<config, runVars>>

\* the values given to -custom-fields
FlagValues == {"", "A", "A,B", ",", "CustomToken"}

\* the settings given to New
SettingsValues ==
    {NilSettings, ScalarSettings}
    \cup {MapSettings(c, i) :
            c \in {JAbsent, JString("CustomToken")}
                  \cup {JArray(l) : l \in CustomFieldLists \cup {<<>>}},
            i \in {JAbsent, JString("yes"), JBool(TRUE), JBool(FALSE)}}

\* the values the tests assign to config
ConfigValues ==
    {[CustomTokenFields |-> l, IncludeTests |-> b] :
        l \in {<<>>, <<"CustomToken", "MyPageToken">>}, b \in BOOLEAN}

ConfigInit ==
    /\ config = DefaultConfig
    /\ defaults = defaultPaginationTokenFields
    /\ lastCall = NoCall
    /\ types = <<>>
    /\ files = <<>>
    /\ cursor = 1
    /\ currentFunc = NilFunc
    /\ reports = <<>>

ConfigNext ==
    \/ \E value \in FlagValues : FlagSetCustomFields(value)
    \/ FlagStringCustomFields
    \/ \E b \in BOOLEAN : FlagSetIncludeTests(b)
    \/ \E settings \in SettingsValues : New(settings)
    \/ \E c \in ConfigValues : ReplaceConfig(c)
    \/ CallGetPaginationTokenFields
    \/ \E i \in 1..(Len(defaults) + MaxCustom) : ModifyReturned(i, "Overwritten")

ConfigSpec == ConfigInit /\ [][ConfigNext]_vars

(***************************************************************************)
(* The Diagnostic Builder on its own: buildErrorMessage called with token  *)
(* fields, a variable name and call information of every shape, also those *)
(* checkAssignment never passes (no variable name, no field).              *)
(***************************************************************************)
MessageInit ==
    /\ \E tokenFields \in {<<>>, <<"NextToken">>, <<"NextMarker">>,
                             <<"IsTruncated", "NextRecordName">>,
                             <<"IsTruncated", "NextRecordName", "NextRecordType",
                               "NextRecordIdentifier">>} :
       \E varName \in {"", "result", "output"} :
       \E methodName \in {"", "ListTasks", "ListResourceRecordSets"} :
       \E serviceName \in {"", "ecs", "route53"} :
           lastCall = [op |-> "arguments", tokenFields |-> tokenFields,
                       varName |-> varName,
                       info |-> [methodName |-> methodName, typeName |-> "",
                                 serviceName |-> serviceName]]
    /\ config = DefaultConfig
    /\ defaults = defaultPaginationTokenFields
    /\ types = <<>>
    /\ files = <<>>
    /\ cursor = 1
    /\ currentFunc = NilFunc
    /\ reports = <<>>

\* msg := buildErrorMessage(tokenFields, varName, info)
CallBuildErrorMessage ==
    /\ lastCall.op = "arguments"
    /\ lastCall' = [op |-> "buildErrorMessage", tokenFields |-> lastCall.tokenFields,
                    varName |-> lastCall.varName, info |-> lastCall.info,
                    out |-> buildErrorMessage(lastCall.tokenFields, lastCall.varName,
                                              lastCall.info)]
    /\ UNCHANGED <<config, defaults, runVars>>

MessageSpec == MessageInit /\ [][CallBuildErrorMessage]_vars

(***************************************************************************)
(* Vocabulary of the properties: call sites, what a type exposes, where a  *)
(* type comes from, and what a function body holds.                        *)
(***************************************************************************)
\* the traversal is over
Done == cursor > Len(Events)

\* the file is not left out by the test-file filter
AnalysedFile(f) == config.IncludeTests \/ ~StringsHasSuffix(files[f].name, "_test.go")

StmtAt(f, d, st) == files[f].decls[d].body[st]

\* the calls with a result type on the right-hand side of the assignments of the
\* function declarations: <<file, decl, stmt, i>>
CallSites ==
    UNION {UNION {UNION {
        {<<f, d, st, i>> : i \in {j \in DOMAIN StmtAt(f, d, st).Rhs :
                                     /\ StmtAt(f, d, st).Rhs[j].kind = "CallExpr"
                                     /\ FirstResult(StmtAt(f, d, st).Rhs[j].typ) # ""}} :
            st \in {k \in DOMAIN files[f].decls[d].body :
                       files[f].decls[d].body[k].kind = "AssignStmt"}} :
            d \in {k \in DOMAIN files[f].decls : files[f].decls[k].kind = "FuncDecl"}} :
            f \in DOMAIN files}

\* the call and its target at a position; a position of five places is in the
\* function literal of statement p[3]
CallAt(p) ==
    IF Len(p) = 5 THEN StmtAt(p[1], p[2], p[3]).Body[p[4]].Rhs[p[5]]
    ELSE StmtAt(p[1], p[2], p[3]).Rhs[p[4]]
TargetAt(p) ==
    IF Len(p) = 5 THEN StmtAt(p[1], p[2], p[3]).Body[p[4]].Lhs[p[5]]
    ELSE StmtAt(p[1], p[2], p[3]).Lhs[p[4]]
EnclosingBody(p) == files[p[1]].decls[p[2]].body
ResultAt(p) == FirstResult(CallAt(p).typ)
NamespaceAt(p) == extractAPICallInfo(CallAt(p), ResultAt(p)).serviceName

\* the target of the call is an identifier other than _
IsNamedTarget(p) == TargetAt(p).kind = "Ident" /\ TargetAt(p).name # "_"

\* the diagnostics reported at a call site
ReportsAt(p) == {k \in DOMAIN reports : reports[k].pos = p}

\* the candidate token fields a value of type t exposes
ExposedTokenFields(t) == PromotedFields(t, {}) \cap AllCandidateNames

GenericFields == SeqRange(defaultPaginationTokenFields)

RegisteredServices == DOMAIN apiSpecificPaginationFields

\* t, or the type t points to, is a named type declared in a package of an SDK v2
\* service
DeclaredInSDK(t) ==
    /\ Kind(Unwrap(t)) = "Named"
    /\ types[Unwrap(t)].hasPkg
    /\ StringsContains(types[Unwrap(t)].pkg, "aws-sdk-go-v2/service/")

\* the types of the fields of the struct that t, with one pointer level off and
\* the underlying type of a named type taken, is
FieldTypesOf(t) ==
    LET st == Underlying(Unwrap(t))
    IN  IF Kind(st) = "Struct"
        THEN {types[st].fields[i].type : i \in DOMAIN types[st].fields}
        ELSE {}

\* the types reached from those of S through struct fields, embedded or not
RECURSIVE ReachableTypes(_)
ReachableTypes(S) ==
    LET S2 == S \cup UNION {FieldTypesOf(t) : t \in S}
    IN  IF S2 = S THEN S ELSE ReachableTypes(S2)

TrustedOrigin(t) == \E u \in ReachableTypes({t}) : DeclaredInSDK(u)

\* the body holds the selector expression v.f
BodyReads(body, v, f) ==
    \E node \in BodyNodes(body) :
        /\ node.kind = "SelectorExpr"
        /\ node.Sel = f
        /\ node.X = Ident(v)

\* the body holds a call of HasMorePages, NextPage or a New...Paginator constructor
BodyUsesPaginator(body) ==
    \E node \in BodyNodes(body) :
        /\ node.kind = "CallExpr"
        /\ node.Fun.kind = "SelectorExpr"
        /\ \/ node.Fun.Sel \in {"HasMorePages", "NextPage"}
           \/ /\ HasPrefixAt(node.Fun.Sel, 1, "New")
              /\ StringsHasSuffix(node.Fun.Sel, "Paginator")

\* a call the analyzer looks at, bound to a named variable, with a result of
\* trusted origin
QualifyingSite(p) ==
    /\ AnalysedFile(p[1])
    /\ IsNamedTarget(p)
    /\ TrustedOrigin(ResultAt(p))

(***************************************************************************)
(* C1.  Core verdict for a single generic token field: a call bound to a   *)
(* named variable v whose result is of trusted origin and exposes          *)
(* NextToken as its token field gets exactly one diagnostic at the call    *)
(* when the enclosing body holds neither v.NextToken nor a paginator call, *)
(* and none when the body holds v.NextToken.                               *)
(***************************************************************************)
C1_CoreVerdict ==
    Done =>
        \A p \in CallSites :
            (QualifyingSite(p) /\ ExposedTokenFields(ResultAt(p)) = {"NextToken"})
            => LET v == TargetAt(p).name
                   body == EnclosingBody(p)
               IN  /\ (~BodyReads(body, v, "NextToken") /\ ~BodyUsesPaginator(body))
                          => Cardinality(ReportsAt(p)) = 1
                   /\ BodyReads(body, v, "NextToken") => ReportsAt(p) = {}

(***************************************************************************)
(* C2.  Generic fallback for the services with registered fields: a        *)
(* trusted result in namespace dynamodb, apigateway or route53 that has    *)
(* none of the namespace's fields but has a generic token field resolves   *)
(* to that generic field, its token field set is that one field, and an    *)
(* unhandled call bound to a named variable is reported.                   *)
(***************************************************************************)
C2_GenericFallback ==
    Done =>
        \A p \in CallSites :
            LET rt == ResultAt(p)
                ns == NamespaceAt(p)
                exposed == ExposedTokenFields(rt)
                body == EnclosingBody(p)
            IN  (/\ AnalysedFile(p[1])
                 /\ TrustedOrigin(rt)
                 /\ ns \in RegisteredServices
                 /\ exposed \cap SeqRange(apiSpecificPaginationFields[ns]) = {}
                 /\ exposed \cap GenericFields # {})
                => /\ hasPaginationTokenField(rt, ns) \in exposed \cap GenericFields
                   /\ getAllPaginationTokenFields(rt, ns)
                          = <<hasPaginationTokenField(rt, ns)>>
                   /\ (/\ IsNamedTarget(p)
                       /\ ~BodyUsesPaginator(body)
                       /\ \A f \in exposed : ~BodyReads(body, TargetAt(p).name, f))
                          => ReportsAt(p) # {}

(***************************************************************************)
(* C3.  Namespace precedence: for a trusted route53 result with exactly    *)
(* one of IsTruncated, NextRecordName, NextRecordType and                  *)
(* NextRecordIdentifier present, whichever it is, the token field set of   *)
(* the call is exactly that field, also when a generic field is present,   *)
(* and an unhandled call is reported naming that field.                    *)
(***************************************************************************)
C3_NamespacePrecedence ==
    Done =>
        \A p \in CallSites :
            LET rt == ResultAt(p)
                ns == NamespaceAt(p)
                present == ExposedTokenFields(rt)
                               \cap SeqRange(apiSpecificPaginationFields["route53"])
                body == EnclosingBody(p)
            IN  (/\ AnalysedFile(p[1])
                 /\ TrustedOrigin(rt)
                 /\ ns = "route53"
                 /\ Cardinality(present) = 1)
                => /\ SeqRange(getAllPaginationTokenFields(rt, ns)) = present
                   /\ (/\ IsNamedTarget(p)
                       /\ ~BodyUsesPaginator(body)
                       /\ \A f \in ExposedTokenFields(rt) :
                              ~BodyReads(body, TargetAt(p).name, f))
                          => \E k \in ReportsAt(p) :
                                 \A f \in present :
                                     StringsContains(reports[k].message, f)

(***************************************************************************)
(* C4.  Standard fields are checked for all services: the seven standard   *)
(* token fields are checked for every trusted service, dynamodb,           *)
(* apigateway and route53 included, in addition to the service's own       *)
(* fields.  So when the check of the standard fields finds field f on a    *)
(* trusted result bound to v, a body reading v.f handles pagination and    *)
(* the call gets no diagnostic (route53: IsTruncated and NextMarker        *)
(* exposed, v.NextMarker read).                                            *)
(***************************************************************************)
C4_StandardFieldsAllServices ==
    Done =>
        \A p \in CallSites :
            LET f == hasPaginationTokenFieldRecursive(ResultAt(p), {}).field
            IN  (/\ QualifyingSite(p)
                 /\ f # ""
                 /\ BodyReads(EnclosingBody(p), TargetAt(p).name, f))
                => ReportsAt(p) = {}

\* no token field the result exposes is read on the bound variable, and no
\* paginator is used, in the body enclosing the call
Unhandled(p) ==
    /\ ~BodyUsesPaginator(EnclosingBody(p))
    /\ \A f \in ExposedTokenFields(ResultAt(p)) :
           ~BodyReads(EnclosingBody(p), TargetAt(p).name, f)

(***************************************************************************)
(* C5.  Any-of semantics for multi-field signals: when the token field set *)
(* of a call bound to v has several fields (route53: IsTruncated,          *)
(* NextRecordName, NextRecordType, NextRecordIdentifier), a read v.f of    *)
(* any one of them anywhere in the enclosing body suppresses the           *)
(* diagnostic; it is reported only if none is read on v and no paginator   *)
(* call is present.                                                        *)
(***************************************************************************)
MultiFieldSite(p) ==
    /\ QualifyingSite(p)
    /\ NamespaceAt(p) \in RegisteredServices
    /\ Cardinality(ExposedTokenFields(ResultAt(p))
                       \cap SeqRange(apiSpecificPaginationFields[NamespaceAt(p)])) > 1

C5_AnyOfFields ==
    Done =>
        \A p \in CallSites :
            (MultiFieldSite(p) /\ ReportsAt(p) # {})
            => /\ ~BodyUsesPaginator(EnclosingBody(p))
               /\ \A f \in ExposedTokenFields(ResultAt(p))
                               \cap SeqRange(apiSpecificPaginationFields[NamespaceAt(p)]) :
                      ~BodyReads(EnclosingBody(p), TargetAt(p).name, f)

\* a read of NextRecordType alone, not the first field of the set, suppressed the
\* diagnostic
C5_Witness ==
    /\ Done
    /\ \E p \in CallSites :
          /\ MultiFieldSite(p)
          /\ BodyReads(EnclosingBody(p), TargetAt(p).name, "NextRecordType")
          /\ ~BodyReads(EnclosingBody(p), TargetAt(p).name, "IsTruncated")
          /\ ~BodyUsesPaginator(EnclosingBody(p))
          /\ ReportsAt(p) = {}

(***************************************************************************)
(* C6.  The iterator pattern is variable-independent and function-wide: if *)
(* the enclosing body holds, anywhere, a call of HasMorePages, NextPage or *)
(* a New...Paginator constructor, no assignment of the function gets a     *)
(* diagnostic, whatever is bound, read, and however many calls qualify.    *)
(***************************************************************************)
C6_IteratorPattern ==
    Done =>
        \A p \in CallSites :
            BodyUsesPaginator(EnclosingBody(p)) => ReportsAt(p) = {}

\* two qualifying calls in one statement, nothing read, a paginator call after
\* them, and no diagnostic
C6_Witness ==
    /\ Done
    /\ \E p \in CallSites, q \in CallSites :
          /\ p # q
          /\ EnclosingBody(p) = EnclosingBody(q)
          /\ QualifyingSite(p) /\ QualifyingSite(q)
          /\ hasPaginationTokenField(ResultAt(p), NamespaceAt(p)) # ""
          /\ hasPaginationTokenField(ResultAt(q), NamespaceAt(q)) # ""
          /\ \A f \in ExposedTokenFields(ResultAt(p)) :
                 ~BodyReads(EnclosingBody(p), TargetAt(p).name, f)
          /\ BodyUsesPaginator(EnclosingBody(p))
          /\ reports = <<>>

(***************************************************************************)
(* C7.  Provenance gate: no diagnostic is ever reported for a call whose   *)
(* result type is not of trusted origin, that is, from which no named type *)
(* declared in a package with 'aws-sdk-go-v2/service/' in its path is      *)
(* reached.  A local struct with Items []string and NextToken *string gets *)
(* no diagnostic however the result is used.                               *)
(***************************************************************************)
C7_ProvenanceGate ==
    Done =>
        \A p \in CallSites :
            ~TrustedOrigin(ResultAt(p)) => ReportsAt(p) = {}

\* an unhandled call returning the local CustomResult, bound to a named variable
C7_Witness ==
    /\ Done
    /\ \E p \in CallSites :
          /\ ResultAt(p) = "*test.CustomResult"
          /\ AnalysedFile(p[1])
          /\ IsNamedTarget(p)
          /\ "NextToken" \in ExposedTokenFields(ResultAt(p))
          /\ Unhandled(p)
          /\ ~TrustedOrigin(ResultAt(p))
          /\ reports = <<>>

(***************************************************************************)
(* C8.  Embedded pointer wrapper: for a locally declared struct that       *)
(* embeds a pointer to a trusted SDK output type having NextToken, and has *)
(* no token field of its own, the resolver finds NextToken through the     *)
(* embedded pointer and the provenance check says trusted; an unhandled    *)
(* call returning the wrapper, or a pointer to it, is reported, and a read *)
(* v.NextToken on the bound variable suppresses the report.                *)
(***************************************************************************)
IsPointerWrapper(t) ==
    LET t1 == Unwrap(t)
        st == Underlying(t1)
    IN  /\ Kind(t1) = "Named"
        /\ ~DeclaredInSDK(t1)
        /\ Kind(st) = "Struct"
        /\ \A i \in DOMAIN types[st].fields :
               types[st].fields[i].name \notin AllCandidateNames
        /\ \E i \in DOMAIN types[st].fields :
               LET e == types[st].fields[i]
               IN  /\ e.embedded
                   /\ Kind(e.type) = "Pointer"
                   /\ DeclaredInSDK(e.type)
                   /\ HasDirectField(Underlying(Unwrap(e.type)), "NextToken")

C8_EmbeddedPointerWrapper ==
    Done =>
        \A p \in CallSites :
            (/\ AnalysedFile(p[1])
             /\ IsNamedTarget(p)
             /\ IsPointerWrapper(ResultAt(p)))
            => /\ hasPaginationTokenField(ResultAt(p), NamespaceAt(p)) = "NextToken"
               /\ isAWSSDKType(ResultAt(p))
               /\ (/\ ~BodyReads(EnclosingBody(p), TargetAt(p).name, "NextToken")
                   /\ ~BodyUsesPaginator(EnclosingBody(p)))
                      => Cardinality(ReportsAt(p)) = 1
               /\ BodyReads(EnclosingBody(p), TargetAt(p).name, "NextToken")
                      => ReportsAt(p) = {}

\* an unhandled call returning a pointer to the wrapper, reported
C8_Witness ==
    /\ Done
    /\ \E p \in CallSites :
          /\ AnalysedFile(p[1])
          /\ IsNamedTarget(p)
          /\ IsPointerWrapper(ResultAt(p))
          /\ Kind(ResultAt(p)) = "Pointer"
          /\ Unhandled(p)
          /\ \E k \in ReportsAt(p) : StringsContains(reports[k].message, "NextToken")

(***************************************************************************)
(* C9.  Scope limitation: the consumption check of a call looks only at    *)
(* the body of the function declaration enclosing the call.  A token read  *)
(* v.f or a paginator call that occurs only in a different function        *)
(* declaration, before or after it, never suppresses the diagnostic: a     *)
(* qualifying call whose own function body holds neither is reported.      *)
(***************************************************************************)
\* the type checks of the call pass: they do not look at any body
ResolvesAt(p) ==
    /\ QualifyingSite(p)
    /\ hasPaginationTokenField(ResultAt(p), NamespaceAt(p)) # ""

\* another function declaration holds a read of a token field on the variable of
\* call p, or a paginator call
ConsumedElsewhere(p) ==
    \E f \in DOMAIN files : \E d \in DOMAIN files[f].decls :
        /\ <<f, d>> # <<p[1], p[2]>>
        /\ \/ BodyUsesPaginator(files[f].decls[d].body)
           \/ \E fld \in ExposedTokenFields(ResultAt(p)) :
                  BodyReads(files[f].decls[d].body, TargetAt(p).name, fld)

C9_ScopeLimitation ==
    Done =>
        \A p \in CallSites :
            (ResolvesAt(p) /\ Unhandled(p)) => Cardinality(ReportsAt(p)) = 1

\* the token is read, or a paginator used, only in another function, and the call
\* is reported
C9_Witness ==
    /\ Done
    /\ \E p \in CallSites :
          /\ ResolvesAt(p)
          /\ Unhandled(p)
          /\ ConsumedElsewhere(p)
          /\ ReportsAt(p) # {}

(***************************************************************************)
(* C10.  Blank-binding suppression: an assignment whose target at the      *)
(* call's position is the blank identifier _ gets no diagnostic for that   *)
(* call, also when the result is trusted, has a token field and the        *)
(* function holds no handling.                                             *)
(***************************************************************************)
C10_BlankBinding ==
    Done =>
        \A p \in CallSites :
            TargetAt(p) = Ident("_") => ReportsAt(p) = {}

\* _, err = client.ListTasks(ctx, input) alone in an analysed function
C10_Witness ==
    /\ Done
    /\ \E p \in CallSites :
          /\ TargetAt(p) = Ident("_")
          /\ AnalysedFile(p[1])
          /\ TrustedOrigin(ResultAt(p))
          /\ hasPaginationTokenField(ResultAt(p), NamespaceAt(p)) # ""
          /\ ~BodyUsesPaginator(EnclosingBody(p))
          /\ \A f \in ExposedTokenFields(ResultAt(p)) :
                 \A node \in BodyNodes(EnclosingBody(p)) :
                     ~(node.kind = "SelectorExpr" /\ node.Sel = f)
          /\ reports = <<>>

(***************************************************************************)
(* C11.  Test-file exclusion: while IncludeTests is false no diagnostic is *)
(* reported for a call site in a file whose name ends in _test.go, the     *)
(* traversal never stands on a child of a node of such a file (the visit   *)
(* returns without descending) and the current function never refers to    *)
(* such a file (the visit leaves the traversal context alone); while       *)
(* IncludeTests is true the call sites of such files are reported exactly  *)
(* like those of other files: one diagnostic for an unhandled call, none   *)
(* otherwise.                                                              *)
(***************************************************************************)
IsTestFile(f) == StringsHasSuffix(files[f].name, "_test.go")

\* the call would be reported wherever its file is analysed
WouldReport(p) ==
    /\ IsNamedTarget(p)
    /\ isAWSSDKType(ResultAt(p))
    /\ hasPaginationTokenField(ResultAt(p), NamespaceAt(p)) # ""
    /\ Unhandled(p)

C11_TestFileExclusion ==
    /\ currentFunc # NilFunc => ~IsTestFile(currentFunc.file) \/ config.IncludeTests
    /\ (Running /\ IsTestFile(Events[cursor].file) /\ ~config.IncludeTests)
          => Events[cursor].push /\ Events[cursor].kind = "FuncDecl"
    /\ Done =>
          \A p \in CallSites :
              IsTestFile(p[1]) =>
                  Cardinality(ReportsAt(p)) =
                      IF config.IncludeTests /\ WouldReport(p) THEN 1 ELSE 0

\* a run with IncludeTests false over a test file holding an unhandled call: the
\* only diagnostic is the one of the regular file
C11_Witness ==
    /\ Done
    /\ ~config.IncludeTests
    /\ \E p \in CallSites :
           IsTestFile(p[1]) /\ WouldReport(p) /\ ReportsAt(p) = {}
    /\ \E q \in CallSites : ~IsTestFile(q[1]) /\ ReportsAt(q) # {}

\* the same package analysed with IncludeTests true: the call in the test file
\* is reported
C11_WitnessIncluded ==
    /\ Done
    /\ config.IncludeTests
    /\ \E p \in CallSites : IsTestFile(p[1]) /\ WouldReport(p) /\ ReportsAt(p) # {}

(***************************************************************************)
(* C12.  Custom field detection: for a result type of trusted origin that  *)
(* exposes CustomToken and no standard or service-specific token field, an *)
(* unhandled call bound to a named variable gets exactly one diagnostic,   *)
(* naming CustomToken, when CustomToken is among the configured custom     *)
(* fields, and no diagnostic when it is not.                               *)
(***************************************************************************)
CustomOnlySite(p) ==
    /\ QualifyingSite(p)
    /\ ExposedTokenFields(ResultAt(p)) = {"CustomToken"}
    /\ Unhandled(p)

NamesField(message, f) == StringsContains(message, " (result has " \o f \o " field)")

C12_CustomFieldDetection ==
    Done =>
        \A p \in CallSites :
            CustomOnlySite(p) =>
                IF "CustomToken" \in SeqRange(config.CustomTokenFields)
                THEN /\ Cardinality(ReportsAt(p)) = 1
                     /\ \A k \in ReportsAt(p) : NamesField(reports[k].message, "CustomToken")
                ELSE ReportsAt(p) = {}

(***************************************************************************)
(* C13.  Candidate list composition: after any sequence of configuration   *)
(* operations (flag Set calls, New calls, assignments to config) the list  *)
(* getPaginationTokenFields returns holds NextToken, NextMarker, Marker,   *)
(* NextContinuationToken, ContinuationToken, NextPageToken, NextPageMarker *)
(* in that order, followed by exactly the configured custom fields in      *)
(* their order (length 7 + number of custom fields); and the default list  *)
(* keeps its contents through the calls and through writes of the caller   *)
(* to the list it was handed.                                              *)
(***************************************************************************)
SevenDefaults ==
    <<"NextToken", "NextMarker", "Marker", "NextContinuationToken",
      "ContinuationToken", "NextPageToken", "NextPageMarker">>

\* getPaginationTokenFields was the last call and its list is as returned
JustReturned == lastCall.op = "getPaginationTokenFields" /\ lastCall.writes = 0

C13_CandidateListComposition ==
    /\ defaults = SevenDefaults
    /\ JustReturned =>
          LET fields == lastCall.out.elems
              custom == config.CustomTokenFields
          IN  /\ Len(fields) = 7 + Len(custom)
              /\ \A i \in 1..7 : fields[i] = SevenDefaults[i]
              /\ \A i \in 1..Len(custom) : fields[7 + i] = custom[i]

\* the caller overwrote a default entry of a list returned while no custom field
\* was configured, after configuration calls had been made
C13_Witness ==
    /\ lastCall.op = "getPaginationTokenFields"
    /\ lastCall.writes > 0
    /\ config.CustomTokenFields = <<>>
    /\ config.IncludeTests
    /\ lastCall.out.elems[3] = "Overwritten"
    /\ defaults[3] = "Marker"

\* a list returned with custom fields configured by Set calls
C13_WitnessCustom ==
    /\ JustReturned
    /\ config.CustomTokenFields = <<"CustomToken", "A", "B">>
    /\ Len(lastCall.out.elems) = 10

(***************************************************************************)
(* C17.  New on valid settings: when the settings decode, New leaves       *)
(* config.CustomTokenFields equal to the decoded custom-fields list (it    *)
(* replaces what earlier Set or New calls stored; an absent key gives the  *)
(* empty list) and config.IncludeTests equal to the decoded include-tests  *)
(* value (false when absent), and returns a nil error with a list of       *)
(* exactly one analyzer, the package variable Analyzer.                    *)
(***************************************************************************)
\* the settings have the shape of Settings: no key, or a list of names under
\* custom-fields and a boolean under include-tests
WellFormedSettings(settings) ==
    /\ settings.kind \in {"nil", "map"}
    /\ settings.custom.json \in {"absent", "array"}
    /\ settings.include.json \in {"absent", "bool"}

NewReturned == lastCall.op = "New"

C17_NewOnValidSettings ==
    (NewReturned /\ WellFormedSettings(lastCall.arg)) =>
        /\ config.CustomTokenFields =
              IF lastCall.arg.custom.json = "array" THEN lastCall.arg.custom.items
              ELSE <<>>
        /\ config.IncludeTests =
              IF lastCall.arg.include.json = "bool" THEN lastCall.arg.include.value
              ELSE FALSE
        /\ lastCall.err = "nil"
        /\ ~lastCall.out.isNil
        /\ lastCall.out.elems = <<Analyzer>>

\* New with a custom-fields list, called while other custom fields were stored
C17_Witness ==
    /\ NewReturned
    /\ WellFormedSettings(lastCall.arg)
    /\ lastCall.arg.custom.json = "array"
    /\ lastCall.arg.custom.items = <<"PageCursor", "CustomToken">>
    /\ lastCall.pre.CustomTokenFields = <<"A", "B">>
    /\ config.CustomTokenFields = <<"PageCursor", "CustomToken">>

\* New without keys, called while custom fields and IncludeTests were set
C17_WitnessAbsent ==
    /\ NewReturned
    /\ lastCall.arg.kind = "map"
    /\ lastCall.arg.custom.json = "absent"
    /\ lastCall.arg.include.json = "absent"
    /\ lastCall.pre.CustomTokenFields # <<>>
    /\ lastCall.pre.IncludeTests
    /\ config = [CustomTokenFields |-> <<>>, IncludeTests |-> FALSE]

(***************************************************************************)
(* C18.  New on invalid settings: when decoding the settings fails, New    *)
(* returns a nil list of analyzers together with the error of the decoder, *)
(* and config (custom fields and IncludeTests) is what it was before the   *)
(* call.                                                                   *)
(***************************************************************************)
DecodingFails(settings) == DecodeSettings(settings).err # "nil"

C18_NewOnInvalidSettings ==
    (NewReturned /\ DecodingFails(lastCall.arg)) =>
        /\ lastCall.out.isNil
        /\ lastCall.out.elems = <<>>
        /\ lastCall.err = DecodeSettings(lastCall.arg).err
        /\ config = lastCall.pre

\* New failed on a map with an ill-typed value while custom fields and
\* IncludeTests were set
C18_Witness ==
    /\ NewReturned
    /\ DecodingFails(lastCall.arg)
    /\ lastCall.arg.kind = "map"
    /\ config.CustomTokenFields = <<"CustomToken", "A">>
    /\ config.IncludeTests

(***************************************************************************)
(* C19.  Flag value semantics of stringSliceFlag: Set returns no error;    *)
(* Set("") leaves the list as it was; Set(v) for a v that is not empty     *)
(* appends the comma-separated pieces of v, in order, to the list, so      *)
(* successive calls accumulate; String returns the elements joined by a    *)
(* comma; and on an empty flag Set(v) followed by String returns v.        *)
(***************************************************************************)
\* the positions of the commas of v, with the positions before and after v
Cuts(v) == {0, Len(v) + 1} \cup {i \in 1..Len(v) : SubSeq(v, i, i) = ","}

\* the k-th of them
NthCut(v, k) == CHOOSE c \in Cuts(v) : Cardinality({d \in Cuts(v) : d < c}) = k - 1

\* the text between consecutive commas of v
Pieces(v) ==
    [k \in 1..(Cardinality(Cuts(v)) - 1) |->
        SubSeq(v, NthCut(v, k) + 1, NthCut(v, k + 1) - 1)]

\* where the k-th element starts in the elements written one after another with
\* one separating character between them
RECURSIVE OffsetOf(_, _)
OffsetOf(elems, k) ==
    IF k = 1 THEN 0 ELSE OffsetOf(elems, k - 1) + Len(elems[k - 1]) + 1

\* text is the elements joined by commas
IsCommaJoined(text, elems) ==
    IF Len(elems) = 0 THEN text = ""
    ELSE /\ Len(text) = OffsetOf(elems, Len(elems)) + Len(elems[Len(elems)])
         /\ \A k \in 1..Len(elems) :
               /\ SubSeq(text, OffsetOf(elems, k) + 1,
                         OffsetOf(elems, k) + Len(elems[k])) = elems[k]
               /\ k > 1 => SubSeq(text, OffsetOf(elems, k), OffsetOf(elems, k)) = ","

C19_AfterCall ==
    /\ lastCall.op = "Set" =>
          /\ lastCall.err = "nil"
          /\ config.CustomTokenFields =
                IF lastCall.arg = "" THEN lastCall.pre
                ELSE lastCall.pre \o Pieces(lastCall.arg)
    /\ lastCall.op = "String" => IsCommaJoined(lastCall.out, lastCall.pre)

\* String called right after Set(v) on an empty flag
C19_RoundTrip ==
    (/\ lastCall.op = "Set"
     /\ Len(lastCall.pre) = 0
     /\ lastCall'.op = "String")
        => lastCall'.out = lastCall.arg

C19_FlagValueSemantics == [](C19_AfterCall) /\ [][C19_RoundTrip]_vars

\* a second Set call added its two pieces after the one of the first call
C19_Witness ==
    /\ lastCall.op = "Set"
    /\ lastCall.arg = "A,B"
    /\ lastCall.pre = <<"CustomToken">>
    /\ config.CustomTokenFields = <<"CustomToken", "A", "B">>

\* String after Set(",") on an empty flag: two empty pieces, joined again
C19_WitnessRoundTrip ==
    /\ lastCall.op = "String"
    /\ lastCall.pre = <<"", "">>
    /\ lastCall.out = ","

(***************************************************************************)
(* C14.  Cycle safety and termination: on type graphs with cycles (a       *)
(* struct that embeds a pointer to itself, structs that embed or refer to  *)
(* each other) hasPaginationTokenFieldRecursive, hasSpecificField and      *)
(* isAWSSDKTypeRecursive return, and return what the fields and the        *)
(* packages reached decide: a token field exactly when one is declared or  *)
(* promoted, a given field exactly when it is declared or promoted, SDK    *)
(* origin exactly when a type of an SDK package is reached.  For a struct  *)
(* outside the SDK that embeds a pointer to itself and declares no token   *)
(* field they return none, false and false.                                *)
(***************************************************************************)
\* the struct behind t is reached again from its own fields
CyclicType(t) ==
    \E u \in ReachableTypes(FieldTypesOf(Unwrap(t))) : Unwrap(u) = Unwrap(t)

\* the struct behind t embeds a pointer to itself
SelfEmbedding(t) ==
    LET st == Underlying(Unwrap(t))
    IN  /\ Kind(st) = "Struct"
        /\ \E i \in DOMAIN types[st].fields :
               /\ types[st].fields[i].embedded
               /\ Kind(types[st].fields[i].type) = "Pointer"
               /\ Unwrap(types[st].fields[i].type) = Unwrap(t)

C14_CycleSafety ==
    Done =>
        \A p \in CallSites :
            LET t == ResultAt(p)
                r == hasPaginationTokenFieldRecursive(t, {})
            IN  CyclicType(t) =>
                    /\ r.field = "" <=> ExposedTokenFields(t) \cap GenericFields = {}
                    /\ r.field # "" => r.field \in ExposedTokenFields(t)
                    /\ \A f \in AllCandidateNames :
                           hasSpecificField(t, f, {}).found <=> f \in PromotedFields(t, {})
                    /\ isAWSSDKTypeRecursive(t, {}).ok <=> TrustedOrigin(t)
                    /\ ~TrustedOrigin(t) => ReportsAt(p) = {}
                    /\ (SelfEmbedding(t) /\ ~TrustedOrigin(t) /\ ExposedTokenFields(t) = {})
                          => /\ r.field = ""
                             /\ ~hasSpecificField(t, "NextToken", {}).found
                             /\ ~isAWSSDKTypeRecursive(t, {}).ok

\* the analysis of a call that returns the struct outside the SDK that embeds a
\* pointer to itself and has no token field has ended
C14_Witness ==
    /\ Done
    /\ \E p \in CallSites :
           /\ IsNamedTarget(p)
           /\ SelfEmbedding(ResultAt(p))
           /\ ~TrustedOrigin(ResultAt(p))
           /\ ExposedTokenFields(ResultAt(p)) = {}

\* structs that embed each other, with a token field on the second: analysed,
\* the field found, no SDK type reached
C14_WitnessMutual ==
    /\ Done
    /\ \E p \in CallSites :
           /\ IsNamedTarget(p)
           /\ CyclicType(ResultAt(p))
           /\ ~SelfEmbedding(ResultAt(p))
           /\ hasPaginationTokenFieldRecursive(ResultAt(p), {}).field = "NextMarker"
           /\ ~isAWSSDKType(ResultAt(p))

\* a struct that embeds itself and an SDK output: the call is reported
C14_WitnessReported ==
    /\ Done
    /\ \E p \in CallSites : SelfEmbedding(ResultAt(p)) /\ ReportsAt(p) # {}

(***************************************************************************)
(* C15.  Direct-before-embedded precedence: when the struct of a result    *)
(* declares a candidate field itself, hasPaginationTokenFieldRecursive     *)
(* returns a field the struct declares itself, whatever candidates its     *)
(* embedded members hold and wherever they stand in the priority order     *)
(* (direct Marker with embedded NextToken gives Marker); a field that is   *)
(* only reached through embedding is returned only when the struct itself  *)
(* declares no candidate.  The diagnostic of such a call names the direct  *)
(* field.                                                                  *)
(***************************************************************************)
\* the candidate fields the struct behind t declares itself
DirectCandidates(t) ==
    LET st == Underlying(Unwrap(t))
    IN  IF Kind(st) # "Struct" THEN {}
        ELSE {types[st].fields[i].name : i \in DOMAIN types[st].fields}
             \cap SeqRange(defaults \o config.CustomTokenFields)

\* the candidate fields reached only through the embedded members
EmbeddedOnlyCandidates(t) ==
    (PromotedFields(t, {}) \cap SeqRange(defaults \o config.CustomTokenFields))
    \ DirectCandidates(t)

C15_DirectBeforeEmbedded ==
    Done =>
        \A p \in CallSites :
            LET t == ResultAt(p)
                field == hasPaginationTokenFieldRecursive(t, {}).field
            IN  /\ DirectCandidates(t) # {} => field \in DirectCandidates(t)
                /\ field \in EmbeddedOnlyCandidates(t) => DirectCandidates(t) = {}
                /\ (DirectCandidates(t) # {} /\ NamespaceAt(p) \notin RegisteredServices)
                      => \A k \in ReportsAt(p) :
                             \E d \in DirectCandidates(t) : NamesField(reports[k].message, d)

\* a reported call whose result declares Marker and embeds a struct with
\* NextToken, which stands before Marker in the priority order
C15_Witness ==
    /\ Done
    /\ \E p \in CallSites :
           /\ DirectCandidates(ResultAt(p)) = {"Marker"}
           /\ "NextToken" \in EmbeddedOnlyCandidates(ResultAt(p))
           /\ \E k \in ReportsAt(p) : NamesField(reports[k].message, "Marker")

\* a call whose result declares NextToken and embeds a struct with Marker
C15_WitnessHigher ==
    /\ Done
    /\ \E p \in CallSites :
           /\ DirectCandidates(ResultAt(p)) = {"NextToken"}
           /\ "Marker" \in EmbeddedOnlyCandidates(ResultAt(p))
           /\ hasPaginationTokenFieldRecursive(ResultAt(p), {}).field = "NextToken"

(***************************************************************************)
(* C16.  Namespace extraction: extractServiceNameFromPackage gives the     *)
(* empty string for a path without "aws-sdk-go-v2/service/"; otherwise it  *)
(* gives the text after the first occurrence of that marker, up to the     *)
(* first "/" of that text, or all of it when it has no "/"                 *)
(* (".../aws-sdk-go-v2/service/dynamodb/types" gives "dynamodb", the fork  *)
(* ".../mycompany/aws-sdk-go-v2/service/ec2" gives "ec2").                 *)
(***************************************************************************)
\* the positions at which sub starts in s
Occurrences(s, sub) ==
    {i \in 1..(Len(s) - Len(sub) + 1) : SubSeq(s, i, i + Len(sub) - 1) = sub}

Least(S) == CHOOSE i \in S : \A j \in S : i <= j

\* the text of s before the first occurrence of sub, s when there is none
Before(s, sub) ==
    IF Occurrences(s, sub) = {} THEN s
    ELSE SubSeq(s, 1, Least(Occurrences(s, sub)) - 1)

\* the text of s after the first occurrence of sub
After(s, sub) == SubSeq(s, Least(Occurrences(s, sub)) + Len(sub), Len(s))

NamespaceOf(pkgPath) ==
    IF Occurrences(pkgPath, "aws-sdk-go-v2/service/") = {} THEN ""
    ELSE Before(After(pkgPath, "aws-sdk-go-v2/service/"), "/")

\* the package of the named type a call returns, if it returns one
PackageAt(p) ==
    LET t == Unwrap(ResultAt(p))
    IN  IF Kind(t) = "Named" /\ types[t].hasPkg THEN types[t].pkg ELSE ""

C16_NamespaceExtraction ==
    Done =>
        \A p \in CallSites :
            /\ extractServiceNameFromPackage(PackageAt(p)) = NamespaceOf(PackageAt(p))
            /\ NamespaceAt(p) = NamespaceOf(PackageAt(p))

\* a call that returns a type of the types sub-package of dynamodb was analysed
C16_Witness ==
    /\ Done
    /\ \E p \in CallSites :
           /\ PackageAt(p) = "github.com/aws/aws-sdk-go-v2/service/dynamodb/types"
           /\ NamespaceAt(p) = "dynamodb"

\* calls returning a type of a fork, of a path that holds the marker twice, of a
\* package outside the SDK and of the SDK v1
C16_WitnessFork ==
    Done /\ \E p \in CallSites :
               /\ PackageAt(p) = "github.com/mycompany/aws-sdk-go-v2/service/ec2"
               /\ NamespaceAt(p) = "ec2"

C16_WitnessTwice ==
    Done /\ \E p \in CallSites :
               /\ Cardinality(Occurrences(PackageAt(p), "aws-sdk-go-v2/service/")) = 2
               /\ NamespaceAt(p) = "mirror"

C16_WitnessNone ==
    Done /\ \E p \in CallSites :
               /\ PackageAt(p) = "github.com/aws/aws-sdk-go/service/s3"
               /\ NamespaceAt(p) = ""

(***************************************************************************)
(* C20.  Diagnostic first segment: the message buildErrorMessage makes     *)
(* starts with "missing pagination handling for AWS SDK List API call",    *)
(* followed for one detected field F by " (result has F field)" and for    *)
(* two or more fields by " (result has ", the fields in the given order    *)
(* separated by ", " with ", and " before the last, and " fields)".        *)
(***************************************************************************)
StartsWith(s, prefix) ==
    Len(s) >= Len(prefix) /\ SubSeq(s, 1, Len(prefix)) = prefix

\* two or more names in the order given, a comma after each but the last and
\* "and" before the last
RECURSIVE SerialCommaList(_)
SerialCommaList(names) ==
    IF Len(names) = 1 THEN "and " \o names[1]
    ELSE names[1] \o ", " \o SerialCommaList(Tail(names))

FirstSegment(names) ==
    "missing pagination handling for AWS SDK List API call"
    \o (IF Len(names) = 1 THEN " (result has " \o names[1] \o " field)"
        ELSE " (result has " \o SerialCommaList(names) \o " fields)")

\* the fields the analyzer detected on the result of call p
DetectedFields(p) == getAllPaginationTokenFields(ResultAt(p), NamespaceAt(p))

C20_DiagnosticFirstSegment ==
    Done =>
        \A k \in DOMAIN reports :
            /\ Len(DetectedFields(reports[k].pos)) >= 1
            /\ StartsWith(reports[k].message,
                          FirstSegment(DetectedFields(reports[k].pos)) \o "\n")

\* a diagnostic for a result with the four fields of route53
C20_Witness ==
    /\ Done
    /\ \E k \in DOMAIN reports :
           /\ Len(DetectedFields(reports[k].pos)) = 4
           /\ StartsWith(reports[k].message,
                  "missing pagination handling for AWS SDK List API call (result has IsTruncated, NextRecordName, NextRecordType, and NextRecordIdentifier fields)")

\* diagnostics for results with one, two and three fields
C20_WitnessOne ==
    Done /\ \E k \in DOMAIN reports :
               StartsWith(reports[k].message,
                   "missing pagination handling for AWS SDK List API call (result has NextToken field)")

C20_WitnessTwo ==
    Done /\ \E k \in DOMAIN reports :
               StartsWith(reports[k].message,
                   "missing pagination handling for AWS SDK List API call (result has IsTruncated, and NextRecordName fields)")

C20_WitnessThree ==
    Done /\ \E k \in DOMAIN reports :
               StartsWith(reports[k].message,
                   "missing pagination handling for AWS SDK List API call (result has IsTruncated, NextRecordName, and NextRecordType fields)")

(***************************************************************************)
(* C21.  Diagnostic remedy text: the message ends with "Use " and the      *)
(* paginator "New" + method name + "Paginator" exactly when both the       *)
(* method name and the service name are known, "a paginator" otherwise     *)
(* (also when only one of the two is known); then " or loop with ", then   *)
(* the variable name and "." only when the variable name is not empty,     *)
(* then the first token field, then "." for one field or                   *)
(* " (or other pagination fields)." for several.                           *)
(***************************************************************************)
EndsWith(s, suffix) ==
    /\ Len(s) >= Len(suffix)
    /\ SubSeq(s, Len(s) - Len(suffix) + 1, Len(s)) = suffix

MessageBuilt == lastCall.op = "buildErrorMessage"

Remedy(tokenFields, varName, info) ==
    "Use "
    \o (IF info.methodName = "" THEN "a paginator"
        ELSE IF info.serviceName = "" THEN "a paginator"
        ELSE "New" \o info.methodName \o "Paginator")
    \o " or loop with "
    \o (IF varName = "" THEN "" ELSE varName \o ".")
    \o tokenFields[1]
    \o (IF Len(tokenFields) = 1 THEN "." ELSE " (or other pagination fields).")

C21_DiagnosticRemedy ==
    (MessageBuilt /\ Len(lastCall.tokenFields) >= 1) =>
        EndsWith(lastCall.out,
                 ". " \o Remedy(lastCall.tokenFields, lastCall.varName, lastCall.info))

\* a message for a known method of an unknown service, without variable name, for
\* a result with several fields
C21_Witness ==
    /\ MessageBuilt
    /\ lastCall.info.methodName = "ListTasks"
    /\ lastCall.info.serviceName = ""
    /\ lastCall.varName = ""
    /\ Len(lastCall.tokenFields) = 2
    /\ EndsWith(lastCall.out,
                "Use a paginator or loop with IsTruncated (or other pagination fields).")

\* a message with everything known
C21_WitnessComplete ==
    /\ MessageBuilt
    /\ EndsWith(lastCall.out, "Use NewListTasksPaginator or loop with result.NextToken.")

(***************************************************************************)
(* C22.  Diagnostic line structure, as claimed: every message              *)
(* buildErrorMessage makes (for names without line breaks) holds exactly   *)
(* one line break, with the preamble, the field parenthetical and the      *)
(* impact sentence "When there are many results, only the first page is    *)
(* returned." on the first line and the remedy on the second.              *)
(***************************************************************************)
ImpactSentence == "When there are many results, only the first page is returned."

LineBreaks(s) == Occurrences(s, "\n")

FirstLine(s) == Before(s, "\n")
SecondLine(s) == After(s, "\n")

C22_ImpactOnFirstLine ==
    MessageBuilt =>
        /\ Cardinality(LineBreaks(lastCall.out)) = 1
        /\ StartsWith(FirstLine(lastCall.out),
                      "missing pagination handling for AWS SDK List API call")
        /\ EndsWith(FirstLine(lastCall.out), ImpactSentence)
        /\ StartsWith(SecondLine(lastCall.out), "Use ")

(***************************************************************************)
(* C22, amended.  Every message buildErrorMessage makes holds exactly one  *)
(* line break; the first line is the preamble with the field parenthetical *)
(* (when there is a field) and nothing else; the second line is the impact *)
(* sentence followed by the remedy.                                        *)
(***************************************************************************)
C22_LineStructure ==
    MessageBuilt =>
        /\ Cardinality(LineBreaks(lastCall.out)) = 1
        /\ FirstLine(lastCall.out) =
              IF Len(lastCall.tokenFields) = 0
              THEN "missing pagination handling for AWS SDK List API call"
              ELSE FirstSegment(lastCall.tokenFields)
        /\ StartsWith(SecondLine(lastCall.out), ImpactSentence \o " Use ")
        /\ Len(lastCall.tokenFields) >= 1 =>
              SecondLine(lastCall.out) =
                  ImpactSentence \o " "
                  \o Remedy(lastCall.tokenFields, lastCall.varName, lastCall.info)

\* a message for four fields: the impact sentence opens its second line
C22_Witness ==
    /\ MessageBuilt
    /\ Len(lastCall.tokenFields) = 4
    /\ lastCall.varName = "result"
    /\ EndsWith(FirstLine(lastCall.out), " fields)")
    /\ StartsWith(SecondLine(lastCall.out), "When there are many results")

(***************************************************************************)
(* C23.  Iterator-pattern name matching, as claimed: a selector call       *)
(* counts as paginator use when its member name ends with "Paginator", for *)
(* every such name of length 9 or more (a member named exactly "Paginator" *)
(* included), or equals "HasMorePages" or "NextPage"; a body holding such  *)
(* a call gets no diagnostic for its call sites.                           *)
(***************************************************************************)
\* the member names of the selector calls in a body
CalledMembers(body) ==
    {node.Fun.Sel : node \in {n \in BodyNodes(body) :
                                 n.kind = "CallExpr" /\ n.Fun.kind = "SelectorExpr"}}

C23_IteratorNamesFromNine ==
    Done =>
        \A p \in CallSites :
            (/\ QualifyingSite(p)
             /\ \E n \in CalledMembers(EnclosingBody(p)) :
                    EndsWith(n, "Paginator") \/ n \in {"HasMorePages", "NextPage"})
            => ReportsAt(p) = {}

(***************************************************************************)
(* C23, amended.  A selector call counts as paginator use exactly when its *)
(* member name ends with "Paginator" and is longer than 9 characters, or   *)
(* equals "HasMorePages" or "NextPage": a body holding such a call gets no *)
(* diagnostic, and a call site outside the registered services whose body  *)
(* holds none, and reads no token field of its variable, gets one: the     *)
(* member named exactly "Paginator" does not suppress it.                  *)
(***************************************************************************)
IteratorName(n) ==
    \/ EndsWith(n, "Paginator") /\ Len(n) > 9
    \/ n \in {"HasMorePages", "NextPage"}

\* the generic and configured candidate fields a value of type t exposes
ConfiguredFields(t) ==
    ExposedTokenFields(t) \cap (GenericFields \cup SeqRange(config.CustomTokenFields))

C23_IteratorNames ==
    Done =>
        \A p \in CallSites :
            QualifyingSite(p) =>
                LET body == EnclosingBody(p)
                    used == \E n \in CalledMembers(body) : IteratorName(n)
                IN  /\ used => ReportsAt(p) = {}
                    /\ (/\ ~used
                        /\ NamespaceAt(p) \notin RegisteredServices
                        /\ ConfiguredFields(ResultAt(p)) # {}
                        /\ \A f \in ExposedTokenFields(ResultAt(p)) :
                               ~BodyReads(body, TargetAt(p).name, f))
                       => Cardinality(ReportsAt(p)) = 1

\* a call beside a call of a member named Paginator, reported
C23_Witness ==
    /\ Done
    /\ \E p \in CallSites :
          /\ QualifyingSite(p)
          /\ "Paginator" \in CalledMembers(EnclosingBody(p))
          /\ Cardinality(ReportsAt(p)) = 1

\* a call beside a paginator constructor, not reported
C23_WitnessConstructor ==
    /\ Done
    /\ \E p \in CallSites :
          /\ QualifyingSite(p)
          /\ ExposedTokenFields(ResultAt(p)) # {}
          /\ "NewListTasksPaginator" \in CalledMembers(EnclosingBody(p))
          /\ ReportsAt(p) = {}

(***************************************************************************)
(* C24.  Visited-set freshness: every top-level field check (each          *)
(* service-specific field, the generic candidate list) starts with an      *)
(* empty visited set, in hasPaginationTokenField as in                     *)
(* getAllPaginationTokenFields, so the outcome for one field does not      *)
(* depend on the fields checked before it: the detector's answer for a     *)
(* call is the first service field found with a fresh set, else the        *)
(* generic field found with a fresh set, and an unhandled call with such a *)
(* field is reported.                                                      *)
(***************************************************************************)
\* the answer of the detector when each check starts with an empty visited set
FreshlyCheckedField(t, serviceName) ==
    LET found == IF IsKnownService(serviceName)
                 THEN {k \in DOMAIN ServiceFields(serviceName) :
                          hasSpecificField(t, ServiceFields(serviceName)[k], {}).found}
                 ELSE {}
    IN  IF found # {} THEN ServiceFields(serviceName)[Least(found)]
        ELSE hasPaginationTokenFieldRecursive(t, {}).field

C24_VisitedSetFreshness ==
    Done =>
        \A p \in CallSites :
            LET rt == ResultAt(p)
                ns == NamespaceAt(p)
            IN  AnalysedFile(p[1]) =>
                    /\ hasPaginationTokenField(rt, ns) = FreshlyCheckedField(rt, ns)
                    /\ (getAllPaginationTokenFields(rt, ns) # <<>>)
                           <=> (FreshlyCheckedField(rt, ns) # "")
                    /\ (/\ QualifyingSite(p)
                        /\ FreshlyCheckedField(rt, ns) # ""
                        /\ Unhandled(p))
                       => ReportsAt(p) # {}

(***************************************************************************)
(* C25.  Traversal context: currentFunc is nil when the pass starts, is    *)
(* the declaration on entering a FuncDecl and nil again on leaving it; an  *)
(* assignment in a file that is not left out is evaluated against the body *)
(* of the function declaration that encloses it, also when it sits in a    *)
(* deferred function literal; an assignment outside every function         *)
(* declaration is never evaluated; currentFunc is nil when the pass ends.  *)
(***************************************************************************)
\* every assignment that binds a call: <<file, decl, stmt, i>> for a statement of
\* a declaration, <<file, decl, stmt, inner, i>> for one of a function literal
AssignedCalls ==
    UNION {UNION {
        LET body == files[f].decls[d].body
            calls(st) == {i \in DOMAIN st.Rhs : st.Rhs[i].kind = "CallExpr"}
        IN  UNION {{<<f, d, k, i>> : i \in calls(body[k])} :
                      k \in {j \in DOMAIN body : body[j].kind = "AssignStmt"}}
            \cup UNION {UNION {{<<f, d, k, n, i>> : i \in calls(body[k].Body[n])} :
                                  n \in {j \in DOMAIN body[k].Body :
                                            body[k].Body[j].kind = "AssignStmt"}} :
                      k \in {j \in DOMAIN body : body[j].kind = "DeferStmt"}} :
        d \in DOMAIN files[f].decls} : f \in DOMAIN files}

AssignmentOf(p) ==
    IF Len(p) = 4 THEN StmtAt(p[1], p[2], p[3]) ELSE StmtAt(p[1], p[2], p[3]).Body[p[4]]

InFunctionLiteral(p) == Len(p) = 5

AtPackageLevel(p) == files[p[1]].decls[p[2]].kind = "GenDecl"

\* the call of p is bound to a named variable, returns ecs.ListTasksOutput, and
\* the body of the declaration around it neither reads NextToken of the variable
\* nor uses a paginator
UnhandledListTasks(p) ==
    LET st == AssignmentOf(p)
        i == p[Len(p)]
        body == files[p[1]].decls[p[2]].body
    IN  /\ FirstResult(st.Rhs[i].typ) = "*ecs.ListTasksOutput"
        /\ i <= Len(st.Lhs)
        /\ st.Lhs[i].kind = "Ident" /\ st.Lhs[i].name # "_"
        /\ ~BodyReads(body, st.Lhs[i].name, "NextToken")
        /\ ~BodyUsesPaginator(body)

C25_TraversalContext ==
    /\ cursor = 1 => currentFunc = NilFunc
    /\ Done => currentFunc = NilFunc
    /\ \A c \in 1..Len(Events) :
          (cursor = c /\ AnalysedFile(Events[c].file)) =>
              LET ev == Events[c]
                  inFunc == files[ev.file].decls[ev.decl].kind = "FuncDecl"
              IN  IF ev.kind = "FuncDecl"
                  THEN currentFunc = IF ev.push THEN NilFunc
                                     ELSE [file |-> ev.file, decl |-> ev.decl]
                  ELSE currentFunc = IF inFunc THEN [file |-> ev.file, decl |-> ev.decl]
                                     ELSE NilFunc
    /\ Done =>
          \A p \in AssignedCalls :
              /\ AtPackageLevel(p) => ReportsAt(p) = {}
              /\ (~AtPackageLevel(p) /\ AnalysedFile(p[1])
                  /\ FirstResult(AssignmentOf(p).Rhs[p[Len(p)]].typ) = "*ecs.ListTasksOutput")
                 => Cardinality(ReportsAt(p)) = IF UnhandledListTasks(p) THEN 1 ELSE 0

\* a call in a deferred function literal, reported at the end of the pass
C25_Witness ==
    /\ Done
    /\ \E p \in AssignedCalls :
          /\ InFunctionLiteral(p)
          /\ UnhandledListTasks(p)
          /\ Cardinality(ReportsAt(p)) = 1

\* a call in a deferred function literal, not reported for a read outside it
C25_WitnessOuterRead ==
    /\ Done
    /\ \E p \in AssignedCalls :
          /\ InFunctionLiteral(p)
          /\ ~BodyReads(StmtAt(p[1], p[2], p[3]).Body, "result", "NextToken")
          /\ BodyReads(files[p[1]].decls[p[2]].body, "result", "NextToken")
          /\ AssignmentOf(p).Lhs[1] = Ident("result")
          /\ ReportsAt(p) = {}

\* an unhandled call in a function literal at package level, after a function
\* declaration of the file, not reported
C25_WitnessPackageLevel ==
    /\ Done
    /\ \E p \in AssignedCalls :
          /\ AtPackageLevel(p)
          /\ p[2] > 1
          /\ UnhandledListTasks(p)
          /\ ReportsAt(p) = {}

(***************************************************************************)
(* C26.  Candidate priority among direct fields: when the struct behind a  *)
(* result declares several candidate fields itself, the field reported is  *)
(* the one that stands earliest in the candidate list (the seven defaults, *)
(* then the configured custom fields), whatever the order the struct       *)
(* declares them in: ContinuationToken and NextContinuationToken give      *)
(* NextContinuationToken, NextToken and a configured custom field give     *)
(* NextToken.                                                              *)
(***************************************************************************)
CandidateList == SevenDefaults \o config.CustomTokenFields

\* the place of field f in the candidate list
Priority(f) == Least({k \in DOMAIN CandidateList : CandidateList[k] = f})

\* the direct candidate of t that stands earliest in the candidate list
EarliestDirect(t) ==
    CHOOSE f \in DirectCandidates(t) :
        \A g \in DirectCandidates(t) : Priority(f) <= Priority(g)

\* the place of field f among the fields the struct behind t declares
DeclaredAt(t, f) ==
    LET st == Underlying(Unwrap(t))
    IN  Least({i \in DOMAIN types[st].fields : types[st].fields[i].name = f})

C26_CandidatePriority ==
    Done =>
        \A p \in CallSites :
            LET t == ResultAt(p)
                direct == DirectCandidates(t)
                field == hasPaginationTokenFieldRecursive(t, {}).field
            IN  direct # {} =>
                    /\ field = EarliestDirect(t)
                    /\ {"ContinuationToken", "NextContinuationToken"} = direct
                           => field = "NextContinuationToken"
                    /\ ("NextToken" \in direct /\ direct \ {"NextToken"}
                                                     \subseteq SeqRange(config.CustomTokenFields))
                           => field = "NextToken"
                    /\ NamespaceAt(p) \notin RegisteredServices
                           => \A k \in ReportsAt(p) :
                                  NamesField(reports[k].message, EarliestDirect(t))

\* a reported call whose result declares ContinuationToken before
\* NextContinuationToken
C26_Witness ==
    /\ Done
    /\ \E p \in CallSites :
          LET t == ResultAt(p)
          IN  /\ DirectCandidates(t) = {"ContinuationToken", "NextContinuationToken"}
              /\ DeclaredAt(t, "ContinuationToken") < DeclaredAt(t, "NextContinuationToken")
              /\ \E k \in ReportsAt(p) :
                     NamesField(reports[k].message, "NextContinuationToken")

\* a reported call whose result declares the configured CustomToken before
\* NextToken
C26_WitnessCustom ==
    /\ Done
    /\ \E p \in CallSites :
          LET t == ResultAt(p)
          IN  /\ DirectCandidates(t) = {"CustomToken", "NextToken"}
              /\ DeclaredAt(t, "CustomToken") < DeclaredAt(t, "NextToken")
              /\ \E k \in ReportsAt(p) : NamesField(reports[k].message, "NextToken")

(***************************************************************************)
(* C27.  The type that is checked: the checks of a call site use the first *)
(* value of the static result type of the call expression; a call without  *)
(* one (an empty tuple, or no type known) is skipped, and only that call;  *)
(* the declared type of the variable the call is bound to plays no part:   *)
(* an assignment with = to a variable declared before as interface{} or    *)
(* any is reported like a := definition.                                   *)
(***************************************************************************)
\* the type the body declares for variable v, "" when it declares none
DeclaredType(body, v) ==
    LET ds == {k \in DOMAIN body : body[k].kind = "DeclStmt" /\ body[k].name = v}
    IN  IF ds = {} THEN "" ELSE body[Least(ds)].typ

\* the call of p has no first result type
WithoutResultType(p) == FirstResult(AssignmentOf(p).Rhs[p[Len(p)]].typ) = ""

\* what the call's own type and the body say: the call returns a trusted type
\* whose token field is NextToken to a named variable, and the body of the
\* function neither reads NextToken of the variable nor uses a paginator
ReportableByCallType(p) ==
    LET st == AssignmentOf(p)
        i == p[Len(p)]
        t == FirstResult(st.Rhs[i].typ)
        body == files[p[1]].decls[p[2]].body
    IN  /\ t # ""
        /\ TrustedOrigin(t)
        /\ ExposedTokenFields(t) = {"NextToken"}
        /\ i <= Len(st.Lhs)
        /\ st.Lhs[i].kind = "Ident" /\ st.Lhs[i].name # "_"
        /\ ~BodyReads(body, st.Lhs[i].name, "NextToken")
        /\ ~BodyUsesPaginator(body)

\* the calls bound to a variable the body declares, and the calls that share a
\* statement with a call without result type
DeclaredOrBesideUntyped(p) ==
    LET st == AssignmentOf(p)
        i == p[Len(p)]
    IN  /\ ~AtPackageLevel(p)
        /\ AnalysedFile(p[1])
        /\ i <= Len(st.Lhs)
        /\ \/ /\ st.Lhs[i].kind = "Ident"
              /\ DeclaredType(files[p[1]].decls[p[2]].body, st.Lhs[i].name) # ""
           \/ \E q \in AssignedCalls :
                  /\ SubSeq(q, 1, Len(q) - 1) = SubSeq(p, 1, Len(p) - 1)
                  /\ WithoutResultType(q)

C27_CheckedType ==
    Done =>
        \A p \in AssignedCalls :
            /\ WithoutResultType(p) => ReportsAt(p) = {}
            /\ DeclaredOrBesideUntyped(p) =>
                   Cardinality(ReportsAt(p)) = IF ReportableByCallType(p) THEN 1 ELSE 0

\* a call assigned with = to a variable declared as interface{}, reported
C27_Witness ==
    /\ Done
    /\ \E p \in AssignedCalls :
          LET st == AssignmentOf(p)
          IN  /\ st.Tok = "="
              /\ DeclaredType(files[p[1]].decls[p[2]].body, st.Lhs[1].name) = "interface{}"
              /\ ReportableByCallType(p)
              /\ Cardinality(ReportsAt(p)) = 1

\* a reported call that stands after a call without result type in one statement
C27_WitnessSkipped ==
    /\ Done
    /\ \E p \in AssignedCalls :
          /\ p[Len(p)] = 2
          /\ ReportableByCallType(p)
          /\ Cardinality(ReportsAt(p)) = 1
          /\ \E q \in AssignedCalls :
                 /\ SubSeq(q, 1, Len(q) - 1) = SubSeq(p, 1, Len(p) - 1)
                 /\ q[Len(q)] = 1
                 /\ AssignmentOf(q).Rhs[1].typ = "()"
                 /\ ReportsAt(q) = {}

\* a call of a local function assigned to a variable declared as any, not reported
C27_WitnessLocal ==
    /\ Done
    /\ \E p \in AssignedCalls :
          LET st == AssignmentOf(p)
          IN  /\ DeclaredType(files[p[1]].decls[p[2]].body, st.Lhs[1].name) = "any"
              /\ FirstResult(st.Rhs[1].typ) = "*test.CustomResult"
              /\ ReportsAt(p) = {}

(***************************************************************************)
(* C28.  Name-based consumption matching: two qualifying call sites of one *)
(* function that bind the same name, with the same token field set, always *)
(* get the same verdict; one read v.f of a field of the set anywhere in    *)
(* the body of the function, also before the call and also on a variable   *)
(* of that name in another scope, suppresses the diagnostic of every such  *)
(* call site.                                                              *)
(***************************************************************************)
ResultOf(p) == FirstResult(AssignmentOf(p).Rhs[p[Len(p)]].typ)

TargetOf(p) == AssignmentOf(p).Lhs[p[Len(p)]]

ServiceOf(p) == extractAPICallInfo(AssignmentOf(p).Rhs[p[Len(p)]], ResultOf(p)).serviceName

\* the call passes every check that does not look at the body
Qualifies(p) ==
    /\ ~AtPackageLevel(p)
    /\ AnalysedFile(p[1])
    /\ ResultOf(p) # ""
    /\ p[Len(p)] <= Len(AssignmentOf(p).Lhs)
    /\ TargetOf(p).kind = "Ident" /\ TargetOf(p).name # "_"
    /\ TrustedOrigin(ResultOf(p))
    /\ hasPaginationTokenField(ResultOf(p), ServiceOf(p)) # ""

TokenFieldSet(p) == SeqRange(getAllPaginationTokenFields(ResultOf(p), ServiceOf(p)))

SameFunction(p, q) == p[1] = q[1] /\ p[2] = q[2]

C28_NameBasedMatching ==
    Done =>
        /\ \A p \in AssignedCalls, q \in AssignedCalls :
               (/\ Qualifies(p) /\ Qualifies(q)
                /\ SameFunction(p, q)
                /\ TargetOf(p).name = TargetOf(q).name
                /\ TokenFieldSet(p) = TokenFieldSet(q))
               => Cardinality(ReportsAt(p)) = Cardinality(ReportsAt(q))
        /\ \A p \in AssignedCalls :
               (/\ Qualifies(p)
                /\ \E f \in TokenFieldSet(p) :
                       BodyReads(files[p[1]].decls[p[2]].body, TargetOf(p).name, f))
               => ReportsAt(p) = {}

\* the statements of the body of p's function that read field f of variable v
ReadsAt(p, v, f) ==
    {k \in DOMAIN files[p[1]].decls[p[2]].body :
        BodyReads(<<files[p[1]].decls[p[2]].body[k]>>, v, f)}

\* two calls bound to result in a function literal, and before it one read of
\* result.NextToken outside the literal: neither call is reported
C28_Witness ==
    /\ Done
    /\ \E p \in AssignedCalls, q \in AssignedCalls :
          /\ p # q
          /\ Qualifies(p) /\ Qualifies(q)
          /\ SameFunction(p, q)
          /\ InFunctionLiteral(p) /\ InFunctionLiteral(q)
          /\ TargetOf(p) = Ident("result") /\ TargetOf(q) = Ident("result")
          /\ ReadsAt(p, "result", "NextToken") # {}
          /\ \A k \in ReadsAt(p, "result", "NextToken") : k < p[3] /\ k < q[3]
          /\ ~BodyUsesPaginator(files[p[1]].decls[p[2]].body)
          /\ ReportsAt(p) = {} /\ ReportsAt(q) = {}

\* two calls bound to result in one body that holds no read: both are reported
C28_WitnessBothReported ==
    /\ Done
    /\ \E p \in AssignedCalls, q \in AssignedCalls :
          /\ p # q
          /\ Qualifies(p) /\ Qualifies(q)
          /\ SameFunction(p, q)
          /\ TargetOf(p) = TargetOf(q)
          /\ Cardinality(ReportsAt(p)) = 1 /\ Cardinality(ReportsAt(q)) = 1

\* a read of result.NextToken in the statement before the only call
C28_WitnessReadBefore ==
    /\ Done
    /\ \E p \in AssignedCalls :
          /\ Qualifies(p)
          /\ ~InFunctionLiteral(p)
          /\ p[3] = 2
          /\ ReadsAt(p, TargetOf(p).name, "NextToken") = {1}
          /\ ~BodyUsesPaginator(files[p[1]].decls[p[2]].body)
          /\ ReportsAt(p) = {}

(***************************************************************************)
(* C29.  Generic token set: when the token field set of a call comes from  *)
(* the generic candidate list it holds one field, the match of highest     *)
(* priority; a read of a candidate of lower priority alone                 *)
(* (v.ContinuationToken of a result that also has NextContinuationToken)   *)
(* does not count and the call is still reported; every diagnostic names   *)
(* at least one field; the set is never empty for a call that passed the   *)
(* first field check.                                                      *)
(***************************************************************************)
\* the token field set of p comes from the generic candidate list
GenericallyResolved(p) ==
    \/ ~IsKnownService(ServiceOf(p))
    \/ \A k \in DOMAIN ServiceFields(ServiceOf(p)) :
           ~hasSpecificField(ResultOf(p), ServiceFields(ServiceOf(p))[k], {}).found

C29_GenericTokenSet ==
    Done =>
        \A p \in AssignedCalls :
            ResultOf(p) # "" =>
                LET all == getAllPaginationTokenFields(ResultOf(p), ServiceOf(p))
                    v == TargetOf(p).name
                    body == files[p[1]].decls[p[2]].body
                IN  /\ GenericallyResolved(p) =>
                           /\ Len(all) <= 1
                           /\ Len(all) = 1 =>
                                  /\ all[1] \in SeqRange(CandidateList)
                                  /\ all[1] \in PromotedFields(ResultOf(p), {})
                                  /\ DirectCandidates(ResultOf(p)) # {}
                                         => all[1] = EarliestDirect(ResultOf(p))
                    /\ hasPaginationTokenField(ResultOf(p), ServiceOf(p)) # "" => Len(all) >= 1
                    /\ \A k \in ReportsAt(p) :
                           /\ Len(all) >= 1
                           /\ StringsContains(reports[k].message, " (result has " \o all[1])
                    /\ (/\ Qualifies(p)
                        /\ GenericallyResolved(p)
                        /\ ~BodyReads(body, v, all[1])
                        /\ ~BodyUsesPaginator(body))
                       => Cardinality(ReportsAt(p)) = 1

\* a reported call whose body reads ContinuationToken of the result, which also
\* has NextContinuationToken
C29_Witness ==
    /\ Done
    /\ \E p \in AssignedCalls :
          /\ Qualifies(p)
          /\ {"ContinuationToken", "NextContinuationToken"}
                 \subseteq PromotedFields(ResultOf(p), {})
          /\ TokenFieldSet(p) = {"NextContinuationToken"}
          /\ BodyReads(files[p[1]].decls[p[2]].body, TargetOf(p).name, "ContinuationToken")
          /\ \E k \in ReportsAt(p) : NamesField(reports[k].message, "NextContinuationToken")

(***************************************************************************)
(* C30.  Resolver and provenance descend differently: the token resolver   *)
(* follows only the embedded members of a struct, the provenance check     *)
(* every field.  A local wrapper that holds an SDK output in a field that  *)
(* is not embedded, and declares no token field, is of trusted origin, has *)
(* no token field and gets no diagnostic; a local struct that declares     *)
(* NextToken itself and has an SDK-typed field that is not embedded is     *)
(* trusted, and reported when the call is not handled.                     *)
(***************************************************************************)
\* t is a struct of the analysed package with an SDK-typed field, none of them
\* embedded
HoldsSDKValue(t) ==
    LET st == Underlying(Unwrap(t))
    IN  /\ Kind(Unwrap(t)) = "Named"
        /\ ~DeclaredInSDK(t)
        /\ Kind(st) = "Struct"
        /\ \A i \in DOMAIN types[st].fields : ~types[st].fields[i].embedded
        /\ \E i \in DOMAIN types[st].fields : DeclaredInSDK(types[st].fields[i].type)

C30_ResolverAndProvenance ==
    Done =>
        \A p \in AssignedCalls :
            ResultOf(p) # "" =>
                LET t == ResultOf(p)
                    field == hasPaginationTokenFieldRecursive(t, {}).field
                IN  /\ field # "" => field \in PromotedFields(t, {})
                    /\ isAWSSDKType(t) <=> TrustedOrigin(t)
                    /\ HoldsSDKValue(t) =>
                           /\ isAWSSDKType(t)
                           /\ field \in DirectCandidates(t) \cup {""}
                           /\ DirectCandidates(t) = {} =>
                                  /\ field = ""
                                  /\ ReportsAt(p) = {}
                           /\ (/\ DirectCandidates(t) = {"NextToken"}
                               /\ ~AtPackageLevel(p) /\ AnalysedFile(p[1])
                               /\ p[Len(p)] <= Len(AssignmentOf(p).Lhs)
                               /\ TargetOf(p).kind = "Ident" /\ TargetOf(p).name # "_"
                               /\ ~BodyReads(files[p[1]].decls[p[2]].body,
                                             TargetOf(p).name, "NextToken")
                               /\ ~BodyUsesPaginator(files[p[1]].decls[p[2]].body))
                              => Cardinality(ReportsAt(p)) = 1

\* a call bound to a named variable that returns a wrapper holding
\* *ecs.ListTasksOutput in a plain field: trusted, without token field, unreported
C30_Witness ==
    /\ Done
    /\ \E p \in AssignedCalls :
          /\ ResultOf(p) # ""
          /\ HoldsSDKValue(ResultOf(p))
          /\ DirectCandidates(ResultOf(p)) = {}
          /\ "*ecs.ListTasksOutput" \in FieldTypesOf(ResultOf(p))
          /\ TargetOf(p).kind = "Ident" /\ TargetOf(p).name # "_"
          /\ isAWSSDKType(ResultOf(p))
          /\ ReportsAt(p) = {}

\* an unhandled call that returns a local struct with NextToken and a plain field
\* of an SDK type, reported
C30_WitnessReported ==
    /\ Done
    /\ \E p \in AssignedCalls :
          /\ ResultOf(p) # ""
          /\ HoldsSDKValue(ResultOf(p))
          /\ DirectCandidates(ResultOf(p)) = {"NextToken"}
          /\ \E k \in ReportsAt(p) : NamesField(reports[k].message, "NextToken")

====
